---- MODULE Spec2Model ----
(***************************************************************************)
(* Asset ingestion (AssetMediaService.uploadAsset / replaceAsset) of the   *)
(* immich server, as a state machine.  Every request is a call with its    *)
(* own program counter; each await of the service is one step, so calls    *)
(* interleave exactly at the suspension points of the code.                *)
(***************************************************************************)
EXTENDS Integers, Sequences, FiniteSets, TLC

\* ------------------------------------------------------------------ bounds
MaxCalls == 2        \* number of uploadAsset / replaceAsset requests in a run
MaxItems == 2        \* number of items in the dto of a bulkUploadCheck
MaxWorkers == 2      \* number of handleSearchDuplicates jobs running at the same time
MaxPage == 2         \* number of jobs handleQueueSearchDuplicates hands to one queueAll

\* --------------------------------------------------------------- constants
Null == 0            \* null id / null path (livePhotoVideoId: null, sidecarPath: null)

User == "u1"         \* auth.user.id of every request
Other == "u2"        \* a second owner, whose assets never belong to User

CallIds == 1..MaxCalls
Checksums == {1, 2}  \* checksums of the files being uploaded
MissingIds == {99}   \* ids no asset row ever has
QuotaChoices == {{}, {14}}   \* quotaSizeInBytes: {} is null, {q} is q bytes

\* file.size: the size of a file is determined by its bytes, hence by its checksum
Size(checksum) == checksum
\* file.originalPath / sidecarFile.originalPath: unique per request (upload uuid)
FilePath(k) == 10 * k
SidecarPathOf(k) == 10 * k + 1

VARIABLES
    assets,      \* Asset Repository: id -> row
    usage,       \* Quota Ledger: quotaUsageInBytes of User
    quota,       \* quotaSizeInBytes of User (a set: empty = null)
    nextId,      \* next id the repository hands out
    calls,       \* the requests: position, inputs, locals, effect log
    bulk,        \* the bulkUploadCheck call: position, dto, response
    upload,      \* the canUploadFile call of the upload interceptor: request, outcome
    config,      \* system configuration: machineLearning / duplicateDetection enabled
    library,     \* assets seen by the duplicate engine: id -> embedding, duplicateId, ...
    workers,     \* the handleSearchDuplicates jobs in progress: position and locals
    processed,   \* assets evaluated with Success, while `serial` holds
    serial,      \* so far jobs ran one at a time and no asset was removed
    detectedAt,  \* job status: the assets whose duplicatesDetectedAt has been written
    driver,      \* the handleQueueSearchDuplicates job: position, locals, queueAll calls
    worker,      \* EventRepository: configRepository.getWorker() of this process
    phase,       \* EventRepository: setup called (ready / failed, its argument), afterInit called
    emitHandlers,\* EventRepository.emitHandlers: event name -> registered items
    authFn,      \* EventRepository.authFn: unset or set
    runs,        \* the onEvent invocations: event, position in the handler list, trace
    clients      \* the websocket connections: position, auth, effect log

\* State of the operations outside uploadAsset / replaceAsset.
ingest == <<assets, usage, quota, nextId, calls>>
dup == <<config, library, workers, processed, serial, detectedAt, driver>>
gateway == <<worker, phase, emitHandlers, authFn, runs, clients>>
aux == <<bulk, upload, dup, gateway>>

vars == <<ingest, aux>>

\* The declared name and modification time that come with the file at `path`
\* (file.originalName, dto.fileModifiedAt).
FileNameOf(path) == IF path = Null THEN Null ELSE 100 + path
FileModifiedAtOf(path) == IF path = Null THEN Null ELSE 200 + path

Row(owner, checksum, path, sidecar, live, status) ==
    [ownerId |-> owner, checksum |-> checksum, originalPath |-> path,
     originalFileName |-> FileNameOf(path), fileModifiedAt |-> FileModifiedAtOf(path),
     sidecarPath |-> sidecar, livePhotoVideoId |-> live, status |-> status]

NoRow == Row("none", Null, Null, Null, Null, "none")

\* The library before the run: a live photo 1 of User with sidecar, linked to the
\* motion video 3; an asset 2 of another owner whose checksum an upload may repeat;
\* an unlinked video 4 of User.
InitAssets ==
    (1 :> Row(User, 3, 1, 6, 3, "active")) @@
    (2 :> Row(Other, 1, 2, Null, Null, "active")) @@
    (3 :> Row(User, 4, 3, Null, Null, "active")) @@
    (4 :> Row(User, 5, 4, Null, Null, "active"))

InitUsage == Size(3) + Size(4) + Size(5)

Entry(op, id, src, files) == [op |-> op, id |-> id, src |-> src, files |-> files]

IdleCall ==
    [op |-> "none", pc |-> "idle", checksum |-> Null, sidecar |-> FALSE,
     live |-> Null, target |-> Null, authUsage |-> 0, alone |-> TRUE,
     err |-> "none", result |-> "none", resultId |-> Null,
     asset |-> NoRow, newId |-> Null, log |-> <<>>]

IdleBulk == [pc |-> "idle", dto |-> <<>>, results |-> <<>>]
IdleUpload ==
    [pc |-> "idle", auth |-> "none", fieldName |-> "none", ext |-> "", outcome |-> "none"]

\* ------------------------------------------------- duplicate engine: the state

WorkerIds == 1..MaxWorkers

\* maxDistance of the search, in hundredths (0.01)
MaxDistance == 1

\* The assets of User that can be evaluated: four images whose embeddings lie on a
\* line, one MaxDistance apart, so that each is within the threshold of its
\* neighbours only.
DupAssetIds == 1..4

\* Further assets: two images of Other whose embeddings equal those of assets 1 and 2,
\* an image of User in a stack, a hidden one (the motion part of a live photo) and one
\* without embedding.
OtherAssetIds == {5, 6}
StackedAssetId == 7
HiddenAssetId == 8
NoEmbeddingAssetId == 9

Embedding(id) ==
    IF id \in DupAssetIds THEN id
    ELSE IF id \in OtherAssetIds THEN id - 4
    ELSE IF id = NoEmbeddingAssetId THEN Null
    ELSE 10 * id

LibraryRow(owner, embedding, duplicateId) ==
    [exists |-> TRUE, ownerId |-> owner, embedding |-> embedding,
     duplicateId |-> duplicateId, stackId |-> Null, visibility |-> "timeline"]

\* No asset has been evaluated yet.
InitLibrary == [id \in DupAssetIds |-> LibraryRow(User, Embedding(id), Null)]

\* A library of two owners, with assets that do not meet the entry conditions.
MixedAssetIds == {1, 2} \cup OtherAssetIds \cup {StackedAssetId, HiddenAssetId, NoEmbeddingAssetId}
MixedLibrary ==
    [id \in MixedAssetIds |->
        LET row == LibraryRow(IF id \in OtherAssetIds THEN Other ELSE User, Embedding(id), Null)
        IN IF id = StackedAssetId THEN [row EXCEPT !.stackId = 1]
           ELSE IF id = HiddenAssetId THEN [row EXCEPT !.visibility = "hidden"]
           ELSE row]

Enabled == [machineLearning |-> TRUE, duplicateDetection |-> TRUE]
Configs == [machineLearning : BOOLEAN, duplicateDetection : BOOLEAN]

NoAsset == [found |-> FALSE, ownerId |-> "none", duplicateId |-> Null]
IdleWorker ==
    [pc |-> "idle", id |-> Null, asset |-> NoAsset, hits |-> <<>>,
     result |-> "none", merges |-> <<>>, updates |-> <<>>, touched |-> <<>>]

IdleDriver ==
    [pc |-> "idle", force |-> "none", streamArg |-> "none", stream |-> <<>>,
     yielded |-> <<>>, jobs |-> <<>>, queueAll |-> <<>>, result |-> "none"]

\* --- event repository (EventRepository: setup, emit, onEvent, handleConnection)

MaxEmits == 2     \* emit calls and received server events per run
MaxClients == 2   \* websocket connections

EventNames == {"ConfigUpdate", "AssetTrash", "WebsocketConnect"}   \* keys of EventMap
ServerEvents == {"ConfigUpdate"}                  \* export const serverEvents
ImmichWorker == {"api", "microservices"}          \* Object.values(ImmichWorker)
WorkerChoices == ImmichWorker \cup {"undefined"}  \* configRepository.getWorker()

\* An optional value: {} is undefined, {x} is x.
OrElse(opt, default) == IF opt = {} THEN default ELSE CHOOSE x \in opt : TRUE

EmitIds == 1..MaxEmits
SocketIds == 1..MaxClients
RunIds == 1..(MaxEmits + MaxClients)
\* The onEvent invocation made by handleConnection of client c.
RunOfClient(c) == MaxEmits + c

\* setup not called yet, and the websocket server not initialised.
Constructed == [setup |-> "constructed", listening |-> FALSE, services |-> <<>>]
NoHandlers == [name \in EventNames |-> <<>>]
IdleRun ==
    [origin |-> "none", name |-> "none", server |-> FALSE, handlers |-> <<>>,
     idx |-> 1, active |-> FALSE, trace |-> <<>>, outcome |-> "none"]
NoAuth == [userId |-> "none", session |-> {}]
IdleClient == [pc |-> "idle", auth |-> NoAuth, log |-> <<>>]

\* The event repository before setup (while other operations are examined).
IdleGateway ==
    /\ worker = "api"
    /\ phase = Constructed
    /\ emitHandlers = NoHandlers
    /\ authFn = "unset"
    /\ runs = [r \in RunIds |-> IdleRun]
    /\ clients = [c \in SocketIds |-> IdleClient]

\* The duplicate engine at rest (while other operations are examined).
IdleDup ==
    /\ config = Enabled
    /\ library = InitLibrary
    /\ workers = [w \in WorkerIds |-> IdleWorker]
    /\ processed = {}
    /\ serial = TRUE
    /\ detectedAt = {}
    /\ driver = IdleDriver

Init ==
    /\ assets = InitAssets
    /\ usage = InitUsage
    /\ quota \in QuotaChoices
    /\ nextId = 5
    /\ calls = [k \in CallIds |-> IdleCall]
    /\ bulk = IdleBulk
    /\ upload = IdleUpload
    /\ IdleGateway
    /\ IdleDup

\* ----------------------------------------------------- collaborators (contracts)

\* Unique index on (ownerId, checksum): a row other than `except` already holds the pair.
ChecksumConflict(owner, checksum, except) ==
    \E a \in DOMAIN assets :
        /\ a # except
        /\ assets[a].ownerId = owner
        /\ assets[a].checksum = checksum

\* The row a write of (owner, checksum) collides with.
ConflictingId(owner, checksum, except) ==
    CHOOSE a \in DOMAIN assets :
        a # except /\ assets[a].ownerId = owner /\ assets[a].checksum = checksum

\* assetRepository.getUploadAssetIdByChecksum(ownerId, checksum): the matching ids.
UploadAssetIdsByChecksum(owner, checksum) ==
    {a \in DOMAIN assets : assets[a].ownerId = owner /\ assets[a].checksum = checksum}

\* requireAccess: the answers the access check can give.  The permission itself
\* (API key, session) is not part of this state, so either answer is possible, except
\* that AssetUpdate is never granted on another owner's asset.
AccessAnswers(c) ==
    IF c.op = "replace" /\ c.target \in DOMAIN assets /\ assets[c.target].ownerId # User
    THEN {FALSE}
    ELSE BOOLEAN

\* onBeforeLink: the referenced asset exists, is owned by the user, is not linked yet.
LinkValid(id) ==
    /\ id \in DOMAIN assets
    /\ assets[id].ownerId = User
    /\ \A a \in DOMAIN assets : assets[a].livePhotoVideoId # id

\* userRepository.updateUsage(userId, delta): one atomic increment of the ledger.
UpdateUsage(delta) == usage' = usage + delta

\* ------------------------------------------------------------- the service

\* Mutant: the comparison rejects a file that exactly fills the quota.
QuotaOk_Strict(c) == \A q \in quota : ~(q <= c.authUsage + Size(c.checksum))

\* requireQuota(auth, size): passes unless a quota is set and is below usage + size,
\* the usage being the one carried by the request's auth (read at request time).
QuotaOk(c) == \A q \in quota : ~(q < c.authUsage + Size(c.checksum))

UploadFiles(k, c) == {FilePath(k)} \cup (IF c.sidecar THEN {SidecarPathOf(k)} ELSE {})

Set(k, c) == calls' = [calls EXCEPT ![k] = c]

Logged(c, pc, e) == [c EXCEPT !.pc = pc, !.log = Append(@, e)]

\* A step of the try block throws: control goes to the catch clause.
Throw(k, c, step, err) ==
    Set(k, [Logged(c, "handle", Entry(step, Null, "failed", {})) EXCEPT !.err = err])

\* dto.livePhotoVideoId of an upload: none, the unlinked video 4, or an invalid link
\* (another owner's asset 2, the already linked video 3, a missing id).
LiveChoices == {Null, 2, 3, 4} \cup MissingIds
\* id of a replace: the photo 1, an asset created during the run, another owner's
\* asset 2, or a missing id.
TargetChoices == (DOMAIN assets \ {3, 4}) \cup MissingIds

InFlight(j) == calls[j].pc \notin {"idle", "done"}

\* A request arrives: its inputs are fixed and its auth carries the usage of that moment.
\* `alone` records whether the request ever overlapped another one.
Arrive(k, c) ==
    calls' = [j \in CallIds |->
                IF j = k THEN [c EXCEPT !.alone = \A i \in CallIds : ~InFlight(i)]
                ELSE IF InFlight(j) THEN [calls[j] EXCEPT !.alone = FALSE]
                ELSE calls[j]]

Begin(k) ==
    /\ calls[k].op = "none"
    /\ k > 1 => calls[k - 1].op # "none"
    /\ \E checksum \in Checksums, sidecar \in BOOLEAN :
          \/ \E live \in LiveChoices :
                Arrive(k, [IdleCall EXCEPT !.op = "upload", !.pc = "access",
                              !.checksum = checksum, !.sidecar = sidecar,
                              !.live = live, !.authUsage = usage])
          \/ \E target \in TargetChoices :
                Arrive(k, [IdleCall EXCEPT !.op = "replace", !.pc = "access",
                              !.checksum = checksum, !.sidecar = sidecar,
                              !.target = target, !.authUsage = usage])
    /\ UNCHANGED <<assets, usage, quota, nextId>>
    /\ UNCHANGED aux

\* uploadAsset / replaceAsset: await this.requireAccess(...)
RequireAccess(k) ==
    LET c == calls[k] IN
    /\ c.pc = "access"
    /\ \E granted \in AccessAnswers(c) :
          IF granted
          THEN Set(k, Logged(c, IF c.op = "upload" THEN "quota" ELSE "getById",
                             Entry("requireAccess", Null, "ok", {})))
          ELSE Throw(k, c, "requireAccess", "access")
    /\ UNCHANGED <<assets, usage, quota, nextId>>
    /\ UNCHANGED aux

\* replaceAsset: const asset = await this.assetRepository.getById(id)
ReplaceGetById(k) ==
    LET c == calls[k] IN
    /\ c.pc = "getById"
    /\ IF c.target \in DOMAIN assets
       THEN Set(k, [Logged(c, "quota", Entry("getById", c.target, "ok", {}))
                       EXCEPT !.asset = assets[c.target]])
       ELSE Throw(k, c, "getById", "notfound")
    /\ UNCHANGED <<assets, usage, quota, nextId>>
    /\ UNCHANGED aux

\* this.requireQuota(auth, file.size)
RequireQuota(k) ==
    LET c == calls[k] IN
    /\ c.pc = "quota"
    /\ IF QuotaOk(c)
       THEN Set(k, Logged(c, IF c.op = "replace" THEN "update"
                                ELSE IF c.live # Null THEN "link" ELSE "create",
                             Entry("requireQuota", Null, "ok", {})))
       ELSE Throw(k, c, "requireQuota", "quota")
    /\ UNCHANGED <<assets, usage, quota, nextId>>
    /\ UNCHANGED aux

\* Mutant: a failed before-link validation is logged but the upload goes on.
UploadBeforeLink_Continues(k) ==
    LET c == calls[k] IN
    /\ c.pc = "link"
    /\ Set(k, Logged(c, "create",
                     Entry("onBeforeLink", c.live, IF LinkValid(c.live) THEN "ok" ELSE "failed", {})))
    /\ UNCHANGED <<assets, usage, quota, nextId>>
    /\ UNCHANGED aux

\* uploadAsset: if (dto.livePhotoVideoId) await onBeforeLink(...)
UploadBeforeLink(k) ==
    LET c == calls[k] IN
    /\ c.pc = "link"
    /\ IF LinkValid(c.live)
       THEN Set(k, Logged(c, "create", Entry("onBeforeLink", c.live, "ok", {})))
       ELSE Throw(k, c, "onBeforeLink", "link")
    /\ UNCHANGED <<assets, usage, quota, nextId>>
    /\ UNCHANGED aux

\* create: const asset = await this.assetRepository.create({...})
CreateAsset(k) ==
    LET c == calls[k] IN
    /\ c.pc = "create"
    /\ IF ChecksumConflict(User, c.checksum, Null)
       THEN /\ Set(k, [Logged(c, "handle",
                              Entry("create", ConflictingId(User, c.checksum, Null),
                                    "failed", {}))
                          EXCEPT !.err = "constraint"])
            /\ UNCHANGED <<assets, nextId>>
       ELSE /\ assets' = assets @@ (nextId :>
                   Row(User, c.checksum, FilePath(k),
                       IF c.sidecar THEN SidecarPathOf(k) ELSE Null, c.live, "active"))
            /\ nextId' = nextId + 1
            /\ Set(k, [Logged(c, IF c.sidecar THEN "utimesSidecar" ELSE "utimes",
                              Entry("create", nextId, "ok", {}))
                          EXCEPT !.newId = nextId])
    /\ UNCHANGED <<usage, quota>>
    /\ UNCHANGED aux

\* create: if (sidecarFile) await this.storageRepository.utimes(sidecarFile.originalPath, ...)
CreateUtimesSidecar(k) ==
    LET c == calls[k] IN
    /\ c.pc = "utimesSidecar"
    /\ Set(k, Logged(c, "utimes", Entry("utimes", Null, "sidecar", {SidecarPathOf(k)})))
    /\ UNCHANGED <<assets, usage, quota, nextId>>
    /\ UNCHANGED aux

\* create: await this.storageRepository.utimes(file.originalPath, ...)
CreateUtimes(k) ==
    LET c == calls[k] IN
    /\ c.pc = "utimes"
    /\ Set(k, Logged(c, "exif", Entry("utimes", Null, "file", {FilePath(k)})))
    /\ UNCHANGED <<assets, usage, quota, nextId>>
    /\ UNCHANGED aux

\* create: await this.assetRepository.upsertExif({ assetId: asset.id, fileSizeInByte })
CreateUpsertExif(k) ==
    LET c == calls[k] IN
    /\ c.pc = "exif"
    /\ Set(k, Logged(c, "queue", Entry("exif", c.newId, "file", {})))
    /\ UNCHANGED <<assets, usage, quota, nextId>>
    /\ UNCHANGED aux

\* Mutant: the job is enqueued with the source of a copy.
CreateQueue_WrongSource(k) ==
    LET c == calls[k] IN
    /\ c.pc = "queue"
    /\ Set(k, Logged(c, "usage", Entry("AssetExtractMetadata", c.newId, "copy", {})))
    /\ UNCHANGED <<assets, usage, quota, nextId>>
    /\ UNCHANGED aux

\* create: await this.jobRepository.queue({ name: AssetExtractMetadata, source: 'upload' })
CreateQueue(k) ==
    LET c == calls[k] IN
    /\ c.pc = "queue"
    /\ Set(k, Logged(c, "usage", Entry("AssetExtractMetadata", c.newId, "upload", {})))
    /\ UNCHANGED <<assets, usage, quota, nextId>>
    /\ UNCHANGED aux

\* Mutant: the ledger is written from the usage read at request time.
UploadUpdateUsage_ReadModifyWrite(k) ==
    LET c == calls[k] IN
    /\ c.pc = "usage"
    /\ usage' = c.authUsage + Size(c.checksum)
    /\ Set(k, [Logged(c, "done", Entry("updateUsage", Null, "ok", {}))
                  EXCEPT !.result = "Created", !.resultId = c.newId])
    /\ UNCHANGED <<assets, quota, nextId>>
    /\ UNCHANGED aux

\* Mutant: a metadata-extraction job is enqueued after the ledger update.
UploadUpdateUsage_ThenQueue(k) ==
    LET c == calls[k] IN
    /\ c.pc = "usage"
    /\ UpdateUsage(Size(c.checksum))
    /\ Set(k, [c EXCEPT !.pc = "done", !.result = "Created", !.resultId = c.newId,
                         !.log = @ \o <<Entry("updateUsage", Null, "ok", {}),
                                        Entry("AssetExtractMetadata", c.newId, "upload", {})>>])
    /\ UNCHANGED <<assets, quota, nextId>>
    /\ UNCHANGED aux

\* uploadAsset: await this.userRepository.updateUsage(auth.user.id, file.size);
\*              return { id: asset.id, status: CREATED }
UploadUpdateUsage(k) ==
    LET c == calls[k] IN
    /\ c.pc = "usage"
    /\ UpdateUsage(Size(c.checksum))
    /\ Set(k, [Logged(c, "done", Entry("updateUsage", Null, "ok", {}))
                  EXCEPT !.result = "Created", !.resultId = c.newId])
    /\ UNCHANGED <<assets, quota, nextId>>
    /\ UNCHANGED aux

\* replaceFileData: await this.assetRepository.update({ id, checksum, originalPath, ...,
\*                  livePhotoVideoId: null, sidecarPath: sidecarPath || null })
\* Mutant: without a new sidecar the old sidecar path stays.
ReplacedRow_KeepsSidecar(row, k, c) ==
    [row EXCEPT !.checksum = c.checksum,
                !.originalPath = FilePath(k),
                !.originalFileName = FileNameOf(FilePath(k)),
                !.fileModifiedAt = FileModifiedAtOf(FilePath(k)),
                !.livePhotoVideoId = Null,
                !.sidecarPath = IF c.sidecar THEN SidecarPathOf(k) ELSE @]

\* The row after assetRepository.update({ id, checksum, originalPath, originalFileName,
\* fileModifiedAt, ..., livePhotoVideoId: null, sidecarPath: sidecarPath || null })
ReplacedRow(row, k, c) ==
    [row EXCEPT !.checksum = c.checksum,
                !.originalPath = FilePath(k),
                !.originalFileName = FileNameOf(FilePath(k)),
                !.fileModifiedAt = FileModifiedAtOf(FilePath(k)),
                !.livePhotoVideoId = Null,
                !.sidecarPath = IF c.sidecar THEN SidecarPathOf(k) ELSE Null]

ReplaceUpdate(k) ==
    LET c == calls[k] IN
    /\ c.pc = "update"
    /\ IF ChecksumConflict(assets[c.target].ownerId, c.checksum, c.target)
       THEN /\ Set(k, [Logged(c, "handle",
                              Entry("update",
                                    ConflictingId(assets[c.target].ownerId, c.checksum,
                                                  c.target),
                                    "failed", {}))
                          EXCEPT !.err = "constraint"])
            /\ UNCHANGED assets
       ELSE /\ assets' = [assets EXCEPT ![c.target] = ReplacedRow(@, k, c)]
            /\ Set(k, Logged(c, "replaceUtimes", Entry("update", c.target, "ok", {})))
    /\ UNCHANGED <<usage, quota, nextId>>
    /\ UNCHANGED aux

\* replaceFileData: await this.storageRepository.utimes(file.originalPath, ...)
ReplaceUtimes(k) ==
    LET c == calls[k] IN
    /\ c.pc = "replaceUtimes"
    /\ Set(k, Logged(c, "replaceExif", Entry("utimes", Null, "file", {FilePath(k)})))
    /\ UNCHANGED <<assets, usage, quota, nextId>>
    /\ UNCHANGED aux

\* replaceFileData: await this.assetRepository.upsertExif({ assetId, fileSizeInByte })
ReplaceUpsertExif(k) ==
    LET c == calls[k] IN
    /\ c.pc = "replaceExif"
    /\ Set(k, Logged(c, "replaceQueue", Entry("exif", c.target, "file", {})))
    /\ UNCHANGED <<assets, usage, quota, nextId>>
    /\ UNCHANGED aux

\* replaceFileData: await this.jobRepository.queue({ AssetExtractMetadata, source: 'upload' })
ReplaceQueue(k) ==
    LET c == calls[k] IN
    /\ c.pc = "replaceQueue"
    /\ Set(k, Logged(c, "copyCreate", Entry("AssetExtractMetadata", c.target, "upload", {})))
    /\ UNCHANGED <<assets, usage, quota, nextId>>
    /\ UNCHANGED aux

\* Mutant: a failed insert of the copy is ignored and createCopy goes on.
CopyCreate_IgnoresFailure(k) ==
    LET c == calls[k] IN
    /\ c.pc = "copyCreate"
    /\ IF ChecksumConflict(c.asset.ownerId, c.asset.checksum, Null)
       THEN /\ Set(k, [Logged(c, "copyStat",
                              Entry("create",
                                    ConflictingId(c.asset.ownerId, c.asset.checksum, Null),
                                    "failed", {}))
                          EXCEPT !.newId = nextId])
            /\ UNCHANGED <<assets, nextId>>
       ELSE /\ assets' = assets @@ (nextId :>
                   [Row(c.asset.ownerId, c.asset.checksum, c.asset.originalPath,
                        c.asset.sidecarPath, c.asset.livePhotoVideoId, "active")
                      EXCEPT !.originalFileName = c.asset.originalFileName,
                             !.fileModifiedAt = c.asset.fileModifiedAt])
            /\ nextId' = nextId + 1
            /\ Set(k, [Logged(c, "copyStat", Entry("create", nextId, "ok", {}))
                          EXCEPT !.newId = nextId])
    /\ UNCHANGED <<usage, quota>>
    /\ UNCHANGED aux

\* createCopy: const created = await this.assetRepository.create({ ...asset })
\* (asset is the row read by getById before the update)
CopyCreate(k) ==
    LET c == calls[k] IN
    /\ c.pc = "copyCreate"
    /\ IF ChecksumConflict(c.asset.ownerId, c.asset.checksum, Null)
       THEN /\ Set(k, [Logged(c, "handle",
                              Entry("create",
                                    ConflictingId(c.asset.ownerId, c.asset.checksum, Null),
                                    "failed", {}))
                          EXCEPT !.err = "constraint"])
            /\ UNCHANGED <<assets, nextId>>
       ELSE /\ assets' = assets @@ (nextId :>
                   [Row(c.asset.ownerId, c.asset.checksum, c.asset.originalPath,
                        c.asset.sidecarPath, c.asset.livePhotoVideoId, "active")
                      EXCEPT !.originalFileName = c.asset.originalFileName,
                             !.fileModifiedAt = c.asset.fileModifiedAt])
            /\ nextId' = nextId + 1
            /\ Set(k, [Logged(c, "copyStat", Entry("create", nextId, "ok", {}))
                          EXCEPT !.newId = nextId])
    /\ UNCHANGED <<usage, quota>>
    /\ UNCHANGED aux

\* createCopy: const { size } = await this.storageRepository.stat(created.originalPath)
CopyStat(k) ==
    LET c == calls[k] IN
    /\ c.pc = "copyStat"
    /\ Set(k, Logged(c, "copyExif", Entry("stat", c.newId, "copy", {c.asset.originalPath})))
    /\ UNCHANGED <<assets, usage, quota, nextId>>
    /\ UNCHANGED aux

\* createCopy: await this.assetRepository.upsertExif({ assetId: created.id, ... })
CopyUpsertExif(k) ==
    LET c == calls[k] IN
    /\ c.pc = "copyExif"
    /\ Set(k, Logged(c, "copyQueue", Entry("exif", c.newId, "copy", {})))
    /\ UNCHANGED <<assets, usage, quota, nextId>>
    /\ UNCHANGED aux

\* Mutant: createCopy returns without enqueueing the job for the copy.
CopyQueue_Deferred(k) ==
    LET c == calls[k] IN
    /\ c.pc = "copyQueue"
    /\ Set(k, [c EXCEPT !.pc = "trash"])
    /\ UNCHANGED <<assets, usage, quota, nextId>>
    /\ UNCHANGED aux

\* createCopy: await this.jobRepository.queue({ AssetExtractMetadata, source: 'copy' })
CopyQueue(k) ==
    LET c == calls[k] IN
    /\ c.pc = "copyQueue"
    /\ Set(k, Logged(c, "trash", Entry("AssetExtractMetadata", c.newId, "copy", {})))
    /\ UNCHANGED <<assets, usage, quota, nextId>>
    /\ UNCHANGED aux

\* replaceAsset: await this.assetRepository.updateAll([copiedPhoto.id],
\*                 { deletedAt: new Date(), status: AssetStatus.Trashed })
ReplaceTrashCopy(k) ==
    LET c == calls[k] IN
    /\ c.pc = "trash"
    /\ assets' = [a \in DOMAIN assets |->
                    IF a = c.newId THEN [assets[a] EXCEPT !.status = "trashed"]
                    ELSE assets[a]]
    /\ Set(k, Logged(c, "emit", Entry("updateAll", c.newId, "trashed", {})))
    /\ UNCHANGED <<usage, quota, nextId>>
    /\ UNCHANGED aux

\* Mutant: the event is emitted without waiting for its handlers.
ReplaceEmitTrash_NotAwaited(k) ==
    LET c == calls[k] IN
    /\ c.pc = "emit"
    /\ Set(k, [c EXCEPT !.pc = "replaceUsage"])
    /\ UNCHANGED <<assets, usage, quota, nextId>>
    /\ UNCHANGED aux

\* replaceAsset: await this.eventRepository.emit('AssetTrash', { assetId: copiedPhoto.id })
\* emit -> onEvent: for (const { handler } of handlers) await handler(...args); the
\* step is the return of the last handler.
ReplaceEmitTrash(k) ==
    LET c == calls[k] IN
    /\ c.pc = "emit"
    /\ Set(k, Logged(c, "replaceUsage", Entry("AssetTrash", c.newId, "emit", {})))
    /\ UNCHANGED <<assets, usage, quota, nextId>>
    /\ UNCHANGED aux

\* Mutant: the response carries the id of the replaced asset, not of the copy.
ReplaceUpdateUsage_ReturnsOriginal(k) ==
    LET c == calls[k] IN
    /\ c.pc = "replaceUsage"
    /\ UpdateUsage(Size(c.checksum))
    /\ Set(k, [Logged(c, "done", Entry("updateUsage", Null, "ok", {}))
                  EXCEPT !.result = "Replaced", !.resultId = c.target])
    /\ UNCHANGED <<assets, quota, nextId>>
    /\ UNCHANGED aux

\* replaceAsset: await this.userRepository.updateUsage(auth.user.id, file.size);
\*               return { status: REPLACED, id: copiedPhoto.id }
ReplaceUpdateUsage(k) ==
    LET c == calls[k] IN
    /\ c.pc = "replaceUsage"
    /\ UpdateUsage(Size(c.checksum))
    /\ Set(k, [Logged(c, "done", Entry("updateUsage", Null, "ok", {}))
                  EXCEPT !.result = "Replaced", !.resultId = c.newId])
    /\ UNCHANGED <<assets, quota, nextId>>
    /\ UNCHANGED aux

\* The awaits inside the try blocks after the access check: any of them can reject
\* (database, filesystem, queue or event-handler failure), which lands in the catch
\* clause.  A rejected access check is the answer FALSE of RequireAccess.
Awaits ==
    {"getById", "link", "create", "utimesSidecar", "utimes", "exif", "queue",
     "usage", "update", "replaceUtimes", "replaceExif", "replaceQueue", "copyCreate",
     "copyStat", "copyExif", "copyQueue", "trash", "emit", "replaceUsage"}

AwaitRejects(k) ==
    LET c == calls[k] IN
    /\ c.pc \in Awaits
    /\ Set(k, [Logged(c, "handle", Entry("rejected", Null, c.pc, {})) EXCEPT !.err = "io"])
    /\ UNCHANGED <<assets, usage, quota, nextId>>
    /\ UNCHANGED aux

\* Mutant: no cleanup job is enqueued.
HandleUploadError_NoCleanup(k) ==
    LET c == calls[k] IN
    /\ c.pc = "handle"
    /\ Set(k, IF c.err = "constraint"
              THEN [c EXCEPT !.pc = "lookup"]
              ELSE [c EXCEPT !.pc = "done", !.result = "Error"])
    /\ UNCHANGED <<assets, usage, quota, nextId>>
    /\ UNCHANGED aux

\* Mutant: the cleanup job forgets the sidecar.
HandleUploadError_SkipsSidecar(k) ==
    LET c == calls[k] IN
    /\ c.pc = "handle"
    /\ Set(k, IF c.err = "constraint"
              THEN Logged(c, "lookup", Entry("FileDelete", Null, "job", {FilePath(k)}))
              ELSE [Logged(c, "done", Entry("FileDelete", Null, "job", {FilePath(k)}))
                       EXCEPT !.result = "Error"])
    /\ UNCHANGED <<assets, usage, quota, nextId>>
    /\ UNCHANGED aux

\* Mutant: on a first checksum violation of an upload the create is tried again.
HandleUploadError_RetryOnce(k) ==
    LET c == calls[k] IN
    /\ c.pc = "handle"
    /\ Set(k, IF c.err = "constraint" /\ c.op = "upload"
                 /\ Cardinality({i \in 1..Len(c.log) : c.log[i].op = "create"}) < 2
              THEN [Logged(c, "create", Entry("FileDelete", Null, "job", UploadFiles(k, c)))
                       EXCEPT !.err = "none"]
              ELSE IF c.err = "constraint"
              THEN Logged(c, "lookup", Entry("FileDelete", Null, "job", UploadFiles(k, c)))
              ELSE [Logged(c, "done", Entry("FileDelete", Null, "job", UploadFiles(k, c)))
                       EXCEPT !.result = "Error"])
    /\ UNCHANGED <<assets, usage, quota, nextId>>
    /\ UNCHANGED aux

\* handleUploadError: await this.jobRepository.queue({ FileDelete, files: [file.originalPath,
\*   sidecarFile?.originalPath] }); then rethrow unless error.constraint_name matches.
HandleUploadError(k) ==
    LET c == calls[k] IN
    /\ c.pc = "handle"
    /\ Set(k, IF c.err = "constraint"
              THEN Logged(c, "lookup", Entry("FileDelete", Null, "job", UploadFiles(k, c)))
              ELSE [Logged(c, "done", Entry("FileDelete", Null, "job", UploadFiles(k, c)))
                       EXCEPT !.result = "Error"])
    /\ UNCHANGED <<assets, usage, quota, nextId>>
    /\ UNCHANGED aux

\* Mutant: a checksum violation is rethrown like any other error.
HandleDuplicate_Rethrow(k) ==
    LET c == calls[k] IN
    /\ c.pc = "lookup"
    /\ Set(k, [c EXCEPT !.pc = "done", !.result = "Error"])
    /\ UNCHANGED <<assets, usage, quota, nextId>>
    /\ UNCHANGED aux

\* Mutant: a duplicate upload is charged to the ledger.
HandleDuplicate_Charges(k) ==
    LET c == calls[k]
        found == UploadAssetIdsByChecksum(User, c.checksum)
    IN
    /\ c.pc = "lookup"
    /\ IF found = {}
       THEN /\ Set(k, [Logged(c, "done", Entry("lookup", Null, "none", {}))
                          EXCEPT !.result = "InternalServerError"])
            /\ UNCHANGED usage
       ELSE /\ \E id \in found :
                 Set(k, [Logged(c, "done", Entry("lookup", id, "found", {}))
                            EXCEPT !.result = "Duplicate", !.resultId = id])
            /\ UpdateUsage(Size(c.checksum))
    /\ UNCHANGED <<assets, quota, nextId>>
    /\ UNCHANGED aux

\* handleUploadError: const duplicateId = await getUploadAssetIdByChecksum(user, file.checksum);
\*   if (!duplicateId) throw new InternalServerErrorException();
\*   return { status: DUPLICATE, id: duplicateId }
HandleDuplicate(k) ==
    LET c == calls[k]
        found == UploadAssetIdsByChecksum(User, c.checksum)
    IN
    /\ c.pc = "lookup"
    /\ IF found = {}
       THEN Set(k, [Logged(c, "done", Entry("lookup", Null, "none", {}))
                       EXCEPT !.result = "InternalServerError"])
       ELSE \E id \in found :
              Set(k, [Logged(c, "done", Entry("lookup", id, "found", {}))
                         EXCEPT !.result = "Duplicate", !.resultId = id])
    /\ UNCHANGED <<assets, usage, quota, nextId>>
    /\ UNCHANGED aux

Next ==
    \E k \in CallIds :
        \/ Begin(k)
        \/ RequireAccess(k)
        \/ ReplaceGetById(k)
        \/ RequireQuota(k)
        \/ UploadBeforeLink(k)
        \/ CreateAsset(k)
        \/ CreateUtimesSidecar(k)
        \/ CreateUtimes(k)
        \/ CreateUpsertExif(k)
        \/ CreateQueue(k)
        \/ UploadUpdateUsage(k)
        \/ ReplaceUpdate(k)
        \/ ReplaceUtimes(k)
        \/ ReplaceUpsertExif(k)
        \/ ReplaceQueue(k)
        \/ CopyCreate(k)
        \/ CopyStat(k)
        \/ CopyUpsertExif(k)
        \/ CopyQueue(k)
        \/ ReplaceTrashCopy(k)
        \/ ReplaceEmitTrash(k)
        \/ ReplaceUpdateUsage(k)
        \/ AwaitRejects(k)
        \/ HandleUploadError(k)
        \/ HandleDuplicate(k)

Spec == Init /\ [][Next]_vars

\* ------------------------------------------------------------ bulkUploadCheck

\* A checksum as a client sends it: sha1 bytes written in hex or in base64.
Encodings == {"hex", "base64"}
Encoded(enc, bytes) == [enc |-> enc, bytes |-> bytes]

\* fromChecksum(checksum): the bytes, whichever encoding the string is in.
FromChecksum(s) == s.bytes
\* checksum.toString('hex')
ToHex(bytes) == Encoded("hex", bytes)

\* Checksums a client asks about: 1 is held by another owner only, 2 by nobody,
\* 3 and 4 by assets of User.
BulkChecksums == {1, 2, 3, 4}
ClientIds == {"c1", "c2"}
BulkItems ==
    [id : ClientIds,
     checksum : {Encoded(enc, b) : enc \in Encodings, b \in BulkChecksums}]
Dtos == UNION {[1..n -> BulkItems] : n \in 0..MaxItems}

\* The libraries a check can run against: any of the assets 1, 2, 3 may be in the trash.
BulkLibraries ==
    {[a \in DOMAIN InitAssets |->
         IF a \in T THEN [InitAssets[a] EXCEPT !.status = "trashed"] ELSE InitAssets[a]] :
     T \in SUBSET {1, 2, 3}}

\* deletedAt of a row: set together with status Trashed (updateAll of replaceAsset).
DeletedAt(row) == row.status = "trashed"

\* assetRepository.getByChecksums(ownerId, checksums): id, deletedAt, checksum of the
\* owner's rows with one of the checksums.
GetByChecksums(owner, checksums) ==
    {[id |-> a, deletedAt |-> DeletedAt(assets[a]), checksum |-> assets[a].checksum] :
        a \in {x \in DOMAIN assets :
                 assets[x].ownerId = owner /\ assets[x].checksum \in checksums}}

\* checksumMap[checksum.toString('hex')] = { id, isTrashed: !!deletedAt }
ChecksumMap(rows) ==
    [h \in {ToHex(r.checksum) : r \in rows} |->
        LET r == CHOOSE x \in rows : ToHex(x.checksum) = h
        IN [id |-> r.id, isTrashed |-> r.deletedAt]]

BulkResult(id, action, reason, assetId, isTrashed) ==
    [id |-> id, action |-> action, reason |-> reason, assetId |-> assetId,
     isTrashed |-> isTrashed]

\* Mutant: the map is looked up with the checksum string as the client wrote it.
BulkResultOf_RawKey(item, checksumMap) ==
    IF item.checksum \in DOMAIN checksumMap
    THEN BulkResult(item.id, "reject", "duplicate", checksumMap[item.checksum].id,
                    checksumMap[item.checksum].isTrashed)
    ELSE BulkResult(item.id, "accept", "none", Null, FALSE)

\* dto.assets.map(({ id, checksum }) => { const duplicate = checksumMap[...]; ... })
BulkResultOf(item, checksumMap) ==
    LET key == ToHex(FromChecksum(item.checksum)) IN
    IF key \in DOMAIN checksumMap
    THEN BulkResult(item.id, "reject", "duplicate", checksumMap[key].id,
                    checksumMap[key].isTrashed)
    ELSE BulkResult(item.id, "accept", "none", Null, FALSE)

\* bulkUploadCheck is called: const checksums = dto.assets.map(fromChecksum), and the
\* call waits for getByChecksums.
BulkBegin ==
    /\ bulk.pc = "idle"
    /\ \E dto \in Dtos : bulk' = [bulk EXCEPT !.pc = "query", !.dto = dto]
    /\ UNCHANGED <<ingest, gateway, upload, dup>>

\* bulkUploadCheck: getByChecksums resolves, the map is filled and the results returned.
BulkUploadCheck ==
    /\ bulk.pc = "query"
    /\ LET checksums == {FromChecksum(bulk.dto[i].checksum) : i \in 1..Len(bulk.dto)}
           checksumMap == ChecksumMap(GetByChecksums(User, checksums))
       IN bulk' = [bulk EXCEPT !.pc = "done",
                     !.results = [i \in 1..Len(bulk.dto) |->
                                     BulkResultOf(bulk.dto[i], checksumMap)]]
    /\ UNCHANGED <<ingest, gateway, upload, dup>>

InitBulk ==
    /\ assets \in BulkLibraries
    /\ usage = InitUsage
    /\ quota = {}
    /\ nextId = 5
    /\ calls = [k \in CallIds |-> IdleCall]
    /\ bulk = IdleBulk
    /\ upload = IdleUpload
    /\ IdleGateway
    /\ IdleDup

NextBulk == BulkBegin \/ BulkUploadCheck

SpecBulk == InitBulk /\ [][NextBulk]_vars

\* -------------------------------------------------------------- canUploadFile

\* auth of the request: a user session, a shared link that allows uploads, a shared
\* link that does not, or no authentication.
Auths == {"user", "linkUpload", "linkReadOnly", "none"}
\* fieldName: the three UploadFieldName values and a field name that is none of them.
FieldNames == {"assetData", "sidecarData", "profileData", "other"}
\* Extension of file.originalName, as written by the client.
Extensions == {"jpg", "JPG", "heic", "mp4", "xmp", "txt", ""}

ToLowerCase(ext) == IF ext = "JPG" THEN "jpg" ELSE ext
ImageTypes == {"jpg", "heic"}
VideoTypes == {"mp4"}
SidecarTypes == {"xmp"}

\* requireUploadAccess(auth): throws without auth or on a link that forbids uploads.
HasUploadAccess(auth) == auth \in {"user", "linkUpload"}
\* mimeTypes.isAsset / isSidecar / isProfile: by the lower-cased extension.
IsAsset(ext) == ToLowerCase(ext) \in ImageTypes \cup VideoTypes
IsSidecar(ext) == ToLowerCase(ext) \in SidecarTypes
IsProfile(ext) == ToLowerCase(ext) \in ImageTypes

\* Mutant: any supported type is accepted, whatever the field.
CanUploadFile_AnyField(auth, fieldName, ext) ==
    IF ~HasUploadAccess(auth) THEN "Unauthorized"
    ELSE IF IsAsset(ext) \/ IsSidecar(ext) \/ IsProfile(ext) THEN "true"
    ELSE "BadRequest"

\* canUploadFile({ auth, fieldName, file }): true, or the exception thrown.
CanUploadFile(auth, fieldName, ext) ==
    IF ~HasUploadAccess(auth) THEN "Unauthorized"
    ELSE IF fieldName = "assetData" /\ IsAsset(ext) THEN "true"
    ELSE IF fieldName = "sidecarData" /\ IsSidecar(ext) THEN "true"
    ELSE IF fieldName = "profileData" /\ IsProfile(ext) THEN "true"
    ELSE "BadRequest"

\* A multipart file field reaches the upload interceptor.
UploadRequest ==
    /\ upload.pc = "idle"
    /\ \E auth \in Auths, fieldName \in FieldNames, ext \in Extensions :
          upload' = [upload EXCEPT !.pc = "filter", !.auth = auth,
                                   !.fieldName = fieldName, !.ext = ext]
    /\ UNCHANGED <<ingest, gateway, bulk, dup>>

\* The interceptor's file filter calls canUploadFile.
UploadFilter ==
    /\ upload.pc = "filter"
    /\ upload' = [upload EXCEPT !.pc = "done",
                     !.outcome = CanUploadFile(upload.auth, upload.fieldName, upload.ext)]
    /\ UNCHANGED <<ingest, gateway, bulk, dup>>

NextCanUpload == UploadRequest \/ UploadFilter

SpecCanUpload == Init /\ [][NextCanUpload]_vars

\* ---------------------------------------------------------- duplicate engine

Abs(x) == IF x < 0 THEN -x ELSE x
Distance(e1, e2) == Abs(e1 - e2)

SeqRange(s) == {s[i] : i \in 1..Len(s)}

\* duplicateRepository.search({ assetId, embedding, maxDistance, userIds }): the assets
\* of the owner within maxDistance of the embedding, the query asset excluded, with the
\* duplicateId each carries now.
SearchHit(id, embedding) ==
    [assetId |-> id, distance |-> Distance(embedding, library[id].embedding),
     duplicateId |-> library[id].duplicateId]

Neighbours(assetId, embedding, userIds) ==
    {id \in DOMAIN library :
        /\ id # assetId
        /\ library[id].exists
        /\ library[id].embedding # Null
        /\ library[id].ownerId \in userIds
        /\ Distance(embedding, library[id].embedding) <= MaxDistance}

\* The results are ordered by ascending distance; hits at the same distance come in
\* either order.
SearchResults(assetId, embedding, userIds) ==
    LET near == Neighbours(assetId, embedding, userIds)
        n == Cardinality(near)
    IN {[i \in 1..n |-> SearchHit(order[i], embedding)] :
          order \in {o \in [1..n -> near] :
                       /\ \A i, j \in 1..n : i # j => o[i] # o[j]
                       /\ \A i, j \in 1..n :
                             i < j => Distance(embedding, library[o[i]].embedding)
                                        <= Distance(embedding, library[o[j]].embedding)}}

\* The non-null duplicateIds of the hits, each once, in the order encountered.
RECURSIVE HitDuplicateIds(_)
HitDuplicateIds(hits) ==
    IF hits = <<>> THEN <<>>
    ELSE LET rest == HitDuplicateIds(SubSeq(hits, 1, Len(hits) - 1))
             d == hits[Len(hits)].duplicateId
         IN IF d = Null \/ d \in SeqRange(rest) THEN rest ELSE Append(rest, d)

\* All duplicateIds involved in the decision: those of the hits first, then the
\* subject's own.
CandidateIds(asset, hits) ==
    LET ids == HitDuplicateIds(hits) IN
    IF asset.duplicateId = Null \/ asset.duplicateId \in SeqRange(ids)
    THEN ids ELSE Append(ids, asset.duplicateId)

\* Ids some asset or some job holds.
UsedDuplicateIds ==
    {library[a].duplicateId : a \in DOMAIN library}
        \cup {workers[w].asset.duplicateId : w \in WorkerIds}
        \cup UNION {{workers[w].hits[i].duplicateId : i \in 1..Len(workers[w].hits)} :
                      w \in WorkerIds}

\* cryptoRepository.randomUUID(): an id nobody holds.
NewDuplicateId == CHOOSE d \in 1..(Cardinality(UsedDuplicateIds) + 1) : d \notin UsedDuplicateIds

\* Mutant: a new cluster id is synthesized even when a hit carries one.
TargetId_AlwaysNew(asset, hits) == NewDuplicateId

\* The target: the first duplicateId encountered, a new one when there is none.
TargetId(asset, hits) ==
    IF CandidateIds(asset, hits) # <<>> THEN Head(CandidateIds(asset, hits))
    ELSE NewDuplicateId

\* Mutant: every hit is resubmitted, also those that carry the target already.
AssetIdsToUpdate_All(id, asset, hits, targetId) ==
    [i \in 1..Len(hits) |-> hits[i].assetId] \o <<id>>

\* Mutant: the subject is left out of the merge.
AssetIdsToUpdate_HitsOnly(id, asset, hits, targetId) ==
    LET moved == SelectSeq(hits, LAMBDA h : h.duplicateId # targetId) IN
    [i \in 1..Len(moved) |-> moved[i].assetId]

\* The hits, then the subject, that do not carry the target yet.
AssetIdsToUpdate(id, asset, hits, targetId) ==
    LET moved == SelectSeq(hits, LAMBDA h : h.duplicateId # targetId) IN
    [i \in 1..Len(moved) |-> moved[i].assetId]
        \o (IF asset.duplicateId # targetId THEN <<id>> ELSE <<>>)

\* Mutant: no cluster is folded into the target.
SourceIds_None(asset, hits) == <<>>

\* The other duplicateIds, absorbed into the target.
SourceIds(asset, hits) ==
    IF CandidateIds(asset, hits) # <<>> THEN Tail(CandidateIds(asset, hits)) ELSE <<>>

MergeCall(assetIds, targetId, sourceIds) ==
    [assetIds |-> assetIds, targetId |-> targetId, sourceIds |-> sourceIds]

\* duplicateRepository.merge({ assetIds, targetId, sourceIds }): one transaction that
\* reassigns assetIds, and every member of the clusters sourceIds, to targetId.
Merge(m) ==
    [a \in DOMAIN library |->
        IF /\ library[a].exists
           /\ \/ a \in SeqRange(m.assetIds)
              \/ library[a].duplicateId # Null
                   /\ library[a].duplicateId \in SeqRange(m.sourceIds)
        THEN [library[a] EXCEPT !.duplicateId = m.targetId]
        ELSE library[a]]

Working(w) == workers[w].pc \notin {"idle", "done"}

SetWorker(w, r) == workers' = [workers EXCEPT ![w] = r]

\* The job returns: its locals are dropped, its status stays.
Finished(r, result) == [IdleWorker EXCEPT !.pc = "done", !.result = result]

\* Mutant: only the machine learning switch is consulted.
IsDuplicateDetectionEnabled_OnlyMachineLearning(machineLearning) ==
    machineLearning.machineLearning

\* isDuplicateDetectionEnabled(machineLearning): both switches are on.
IsDuplicateDetectionEnabled(machineLearning) ==
    machineLearning.machineLearning /\ machineLearning.duplicateDetection

\* A duplicate-detection job for asset `id` is taken from the queue by the first
\* free worker.
HandleSearchDuplicates(w) ==
    /\ ~Working(w)
    /\ \A v \in WorkerIds : v < w => Working(v)
    /\ \E id \in DOMAIN library \cup MissingIds :
          SetWorker(w, [IdleWorker EXCEPT !.pc = "config", !.id = id])
    /\ serial' = (serial /\ \A u \in WorkerIds : ~Working(u))
    /\ processed' = IF serial' THEN processed ELSE {}
    /\ UNCHANGED <<ingest, gateway, bulk, upload, driver, config, library, detectedAt>>

\* const { machineLearning } = await this.getConfig(...);
\* if (!isDuplicateDetectionEnabled(machineLearning)) return JobStatus.Skipped
DupGetConfig(w) ==
    LET r == workers[w] IN
    /\ r.pc = "config"
    /\ SetWorker(w, IF IsDuplicateDetectionEnabled(config)
                    THEN [r EXCEPT !.pc = "get"]
                    ELSE Finished(r, "Skipped"))
    /\ UNCHANGED <<ingest, gateway, bulk, upload, driver, config, library, processed, serial, detectedAt>>

\* Mutant: an asset in a stack is evaluated like any other.
EntryStatus_StackEvaluated(id) ==
    IF id \notin DOMAIN library \/ ~library[id].exists THEN "Failed"
    ELSE IF library[id].visibility = "hidden" THEN "Skipped"
    ELSE IF library[id].embedding = Null THEN "Failed"
    ELSE "Continue"

\* The entry conditions, checked on the row getForSearchDuplicatesJob returned:
\* no asset -> Failed, part of a stack -> Skipped, not visible -> Skipped,
\* no embedding -> Failed.
EntryStatus(id) ==
    IF id \notin DOMAIN library \/ ~library[id].exists THEN "Failed"
    ELSE IF library[id].stackId # Null THEN "Skipped"
    ELSE IF library[id].visibility = "hidden" THEN "Skipped"
    ELSE IF library[id].embedding = Null THEN "Failed"
    ELSE "Continue"

\* const asset = await this.assetJobRepository.getForSearchDuplicatesJob(id), and the
\* entry conditions
DupGetAsset(w) ==
    LET r == workers[w] IN
    /\ r.pc = "get"
    /\ SetWorker(w, IF EntryStatus(r.id) = "Continue"
                    THEN [r EXCEPT !.pc = "search",
                             !.asset = [found |-> TRUE,
                                        ownerId |-> library[r.id].ownerId,
                                        duplicateId |-> library[r.id].duplicateId]]
                    ELSE Finished(r, EntryStatus(r.id)))
    /\ UNCHANGED <<ingest, gateway, bulk, upload, driver, config, library, processed, serial, detectedAt>>

\* Mutant: the search runs over the assets of every owner.
SearchOwners_All(asset) == {User, Other}

\* userIds: [asset.ownerId]
SearchOwners(asset) == {asset.ownerId}

\* const duplicateAssets = await this.duplicateRepository.search({ assetId, embedding,
\*   maxDistance, type, userIds: [asset.ownerId] })
DupSearch(w) ==
    LET r == workers[w] IN
    /\ r.pc = "search"
    /\ \E hits \in SearchResults(r.id, Embedding(r.id), SearchOwners(r.asset)) :
          SetWorker(w, [r EXCEPT !.hits = hits,
                           !.pc = IF hits # <<>> THEN "merge"
                                  ELSE IF r.asset.duplicateId # Null THEN "clear"
                                  ELSE "status",
                           !.touched = IF hits = <<>> THEN <<r.id>> ELSE <<>>])
    /\ UNCHANGED <<ingest, gateway, bulk, upload, driver, config, library, processed, serial, detectedAt>>

\* The merge the job asks for.
MergeOf(r) ==
    LET targetId == TargetId(r.asset, r.hits) IN
    MergeCall(AssetIdsToUpdate(r.id, r.asset, r.hits, targetId), targetId,
              SourceIds(r.asset, r.hits))

\* >= 1 hit: the target is picked and merge({ assetIds, targetId, sourceIds }) is
\* awaited; the transaction commits.
DupMerge(w) ==
    LET r == workers[w]
        m == MergeOf(r)
    IN
    /\ r.pc = "merge"
    /\ library' = Merge(m)
    /\ SetWorker(w, [r EXCEPT !.pc = "status", !.merges = Append(@, m),
                              !.touched = m.assetIds])
    /\ UNCHANGED <<ingest, gateway, bulk, upload, driver, config, processed, serial, detectedAt>>

\* Mutant: a merge that fails has reassigned its first asset already.
DupMergeFails_Partial(w) ==
    LET r == workers[w]
        m == MergeOf(r)
    IN
    /\ r.pc = "merge"
    /\ library' = IF m.assetIds = <<>> THEN library
                  ELSE [library EXCEPT ![Head(m.assetIds)] =
                           [@ EXCEPT !.duplicateId = m.targetId]]
    /\ SetWorker(w, Finished(r, "Throws"))
    /\ serial' = FALSE
    /\ processed' = {}
    /\ UNCHANGED <<ingest, gateway, bulk, upload, driver, config, detectedAt>>

\* The merge transaction fails (a storage error): it is rolled back, and the
\* rejection leaves the job, which ends without a status of its own.
DupMergeFails(w) ==
    LET r == workers[w] IN
    /\ r.pc = "merge"
    /\ SetWorker(w, Finished(r, "Throws"))
    /\ serial' = FALSE
    /\ processed' = {}
    /\ UNCHANGED <<ingest, gateway, bulk, upload, driver, config, library, detectedAt>>

\* Mutant: the dissolution leaves the subject's duplicateId in place.
DupClear_Keeps(w) ==
    LET r == workers[w] IN
    /\ r.pc = "clear"
    /\ SetWorker(w, [r EXCEPT !.pc = "status", !.updates = Append(@, r.id)])
    /\ UNCHANGED <<ingest, gateway, bulk, upload, driver, config, library, processed, serial, detectedAt>>

\* no hit and asset.duplicateId set:
\* await this.assetRepository.update({ id: asset.id, duplicateId: null })
DupClear(w) ==
    LET r == workers[w] IN
    /\ r.pc = "clear"
    /\ library' = [library EXCEPT ![r.id] =
                      IF @.exists THEN [@ EXCEPT !.duplicateId = Null] ELSE @]
    /\ SetWorker(w, [r EXCEPT !.pc = "status", !.updates = Append(@, r.id)])
    /\ UNCHANGED <<ingest, gateway, bulk, upload, driver, config, processed, serial, detectedAt>>

\* Mutant: only the subject is stamped.
StatusAssetIds_SubjectOnly(r) == <<r.id>>

\* The assets upsertJobStatus is called for: the assetIds of the merge, the subject
\* alone when there was no hit.
StatusAssetIds(r) == r.touched

\* await this.assetRepository.upsertJobStatus(...assetIds.map((assetId) =>
\*   ({ assetId, duplicatesDetectedAt }))); return JobStatus.Success
DupUpsertJobStatus(w) ==
    LET r == workers[w] IN
    /\ r.pc = "status"
    /\ detectedAt' = detectedAt \cup SeqRange(StatusAssetIds(r))
    /\ SetWorker(w, Finished(r, "Success"))
    /\ processed' = IF serial THEN processed \cup {r.id} ELSE {}
    /\ UNCHANGED <<ingest, gateway, bulk, upload, driver, config, library, serial>>

Removed == {a \in DOMAIN library : ~library[a].exists}

\* The asset the background sweep hard-deletes during the run.
RemovableIds == {2}

\* The background sweep hard-deletes an asset.
Remove(a) ==
    /\ library[a].exists
    /\ library' = [library EXCEPT ![a] = [@ EXCEPT !.exists = FALSE, !.duplicateId = Null]]
    /\ serial' = FALSE
    /\ processed' = {}
    /\ UNCHANGED <<ingest, gateway, bulk, upload, driver, config, workers, detectedAt>>

InitDup ==
    /\ assets = InitAssets
    /\ usage = InitUsage
    /\ quota = {}
    /\ nextId = 5
    /\ calls = [k \in CallIds |-> IdleCall]
    /\ bulk = IdleBulk
    /\ upload = IdleUpload
    /\ IdleGateway
    /\ config \in Configs
    /\ library = InitLibrary
    /\ workers = [w \in WorkerIds |-> IdleWorker]
    /\ processed = {}
    /\ serial = TRUE
    /\ detectedAt = {}
    /\ driver = IdleDriver

NextDup ==
    \/ \E w \in WorkerIds :
          \/ HandleSearchDuplicates(w)
          \/ DupGetConfig(w)
          \/ DupGetAsset(w)
          \/ DupSearch(w)
          \/ DupMerge(w)
          \/ DupMergeFails(w)
          \/ DupClear(w)
          \/ DupUpsertJobStatus(w)
    \/ \E a \in RemovableIds : Remove(a)

SpecDup == InitDup /\ [][NextDup]_vars

\* The engine on the library of two owners.
InitDupMixed ==
    /\ assets = InitAssets
    /\ usage = InitUsage
    /\ quota = {}
    /\ nextId = 5
    /\ calls = [k \in CallIds |-> IdleCall]
    /\ bulk = IdleBulk
    /\ upload = IdleUpload
    /\ IdleGateway
    /\ config = Enabled
    /\ library = MixedLibrary
    /\ workers = [w \in WorkerIds |-> IdleWorker]
    /\ processed = {}
    /\ serial = TRUE
    /\ detectedAt = {}
    /\ driver = IdleDriver

SpecDupMixed == InitDupMixed /\ [][NextDup]_vars

\* ------------------------------------------------- handleQueueSearchDuplicates

\* The force flag of the job: set, unset, or absent.
Forces == {"true", "false", "undefined"}

\* Permutations of a set.
Orders(S) ==
    {o \in [1..Cardinality(S) -> S] : \A i, j \in 1..Cardinality(S) : i # j => o[i] # o[j]}

\* assetJobRepository.streamForSearchDuplicates(force): every asset with an embedding
\* when force is set, else those never evaluated; a forward-only cursor, in any order.
StreamForSearchDuplicates(force) ==
    Orders({a \in DOMAIN library :
              /\ library[a].exists /\ library[a].embedding # Null
              /\ force = "true" \/ a \notin detectedAt})

DetectJob(id) == [name |-> "AssetDetectDuplicates", data |-> id]

\* Mutant: the flag is turned into a boolean on the way to the stream.
StreamArg_Boolean(force) == IF force = "true" THEN "true" ELSE "false"

\* this.assetJobRepository.streamForSearchDuplicates(force)
StreamArg(force) == force

\* Mutant: the page handed to queueAll stays in the buffer.
AfterQueueAll_Keeps(jobs) == jobs

\* queueAll: jobs = [] once the page has been handed over
AfterQueueAll(jobs) == <<>>

HandleQueueSearchDuplicates ==
    /\ driver.pc \in {"idle", "done"}
    /\ \E force \in Forces : driver' = [IdleDriver EXCEPT !.pc = "config", !.force = force]
    /\ UNCHANGED <<ingest, gateway, bulk, upload, config, library, workers, processed, serial, detectedAt>>

\* Mutant: with force set the switches are not consulted.
QueueGetConfig_ForceOverrides ==
    /\ driver.pc = "config"
    /\ IF IsDuplicateDetectionEnabled(config) \/ driver.force = "true"
       THEN \E stream \in StreamForSearchDuplicates(StreamArg(driver.force)) :
               driver' = [driver EXCEPT !.pc = "stream", !.stream = stream,
                                        !.streamArg = StreamArg(driver.force)]
       ELSE driver' = [driver EXCEPT !.pc = "done", !.result = "Skipped"]
    /\ UNCHANGED <<ingest, gateway, bulk, upload, config, library, workers, processed, serial, detectedAt>>

\* const { machineLearning } = await this.getConfig(...);
\* if (!isDuplicateDetectionEnabled(machineLearning)) return JobStatus.Skipped;
\* const assets = this.assetJobRepository.streamForSearchDuplicates(force)
QueueGetConfig ==
    /\ driver.pc = "config"
    /\ IF IsDuplicateDetectionEnabled(config)
       THEN \E stream \in StreamForSearchDuplicates(StreamArg(driver.force)) :
               driver' = [driver EXCEPT !.pc = "stream", !.stream = stream,
                                        !.streamArg = StreamArg(driver.force)]
       ELSE driver' = [driver EXCEPT !.pc = "done", !.result = "Skipped"]
    /\ UNCHANGED <<ingest, gateway, bulk, upload, config, library, workers, processed, serial, detectedAt>>

\* for await (const asset of assets): the job is pushed, and a full page is handed to
\* queueAll
QueueNext ==
    /\ driver.pc = "stream" /\ driver.stream # <<>>
    /\ LET jobs == Append(driver.jobs, DetectJob(Head(driver.stream)))
           full == Len(jobs) >= MaxPage
       IN driver' = [driver EXCEPT !.stream = Tail(@),
                                   !.yielded = Append(@, Head(driver.stream)),
                                   !.jobs = IF full THEN AfterQueueAll(jobs) ELSE jobs,
                                   !.queueAll = IF full THEN Append(@, jobs) ELSE @]
    /\ UNCHANGED <<ingest, gateway, bulk, upload, config, library, workers, processed, serial, detectedAt>>

\* the stream is exhausted: the last page is handed to queueAll; return Success
QueueFinish ==
    /\ driver.pc = "stream" /\ driver.stream = <<>>
    /\ driver' = [driver EXCEPT !.pc = "done", !.result = "Success",
                                !.jobs = AfterQueueAll(driver.jobs),
                                !.queueAll = Append(@, driver.jobs)]
    /\ UNCHANGED <<ingest, gateway, bulk, upload, config, library, workers, processed, serial, detectedAt>>

InitQueue ==
    /\ assets = InitAssets
    /\ usage = InitUsage
    /\ quota = {}
    /\ nextId = 5
    /\ calls = [k \in CallIds |-> IdleCall]
    /\ bulk = IdleBulk
    /\ upload = IdleUpload
    /\ IdleGateway
    /\ config \in Configs
    /\ library = InitLibrary
    /\ workers = [w \in WorkerIds |-> IdleWorker]
    /\ processed = {}
    /\ serial = TRUE
    /\ detectedAt \in SUBSET DupAssetIds
    /\ driver = IdleDriver

NextQueue ==
    \/ HandleQueueSearchDuplicates
    \/ QueueGetConfig
    \/ QueueNext
    \/ QueueFinish

SpecQueue == InitQueue /\ [][NextQueue]_vars

\* ------------------------------------------------------------ event repository

\* The @OnEvent configurations found on the services' methods: label, event name,
\* and the optional priority, server and workers.
EventConfig(name, priority, server, wrk) ==
    [name |-> name, priority |-> priority, server |-> server, workers |-> wrk]

Declarations ==
    ("h1" :> EventConfig("ConfigUpdate", {}, {TRUE}, {})) @@
    ("h2" :> EventConfig("ConfigUpdate", {-100}, {}, {})) @@
    ("h3" :> EventConfig("ConfigUpdate", {0}, {TRUE}, {{"microservices"}})) @@
    ("h4" :> EventConfig("WebsocketConnect", {}, {}, {{"api"}})) @@
    ("h5" :> EventConfig("WebsocketConnect", {10}, {FALSE}, {{}})) @@
    ("h6" :> EventConfig("ConfigUpdate", {0}, {FALSE}, {}))

\* The services handed to setup: their decorated methods in discovery order.
ServiceChoices ==
    {<<"h1", "h2", "h3", "h4", "h5", "h6">>, <<"h6", "h4", "h3", "h5", "h1", "h2">>}

\* setup: const workers = event.workers ?? Object.values(ImmichWorker)
WorkersOf(label) == OrElse(Declarations[label].workers, ImmichWorker)

\* setup: items.push({ event: event.name, priority: event.priority || 0,
\*                     server: event.server ?? false, handler, label })
ItemOf(label) ==
    [event |-> Declarations[label].name,
     priority |-> OrElse(Declarations[label].priority, 0),
     server |-> OrElse(Declarations[label].server, FALSE),
     label |-> label]

\* setup, discovery loop: the items of the handlers whose workers include `w`.
Discover(services, w) ==
    LET Included(label) == w \in WorkersOf(label)
        kept == SelectSeq(services, Included)
    IN [i \in 1..Len(kept) |-> ItemOf(kept[i])]

\* Mutant: handlers are registered in discovery order.
OrderBy_Discovery(items) == items

\* _.orderBy(items, ['priority'], ['asc']): a stable sort, ascending by priority.
RECURSIVE OrderBy(_)
OrderBy(items) ==
    IF items = <<>> THEN <<>>
    ELSE LET last == items[Len(items)]
             front == OrderBy(SubSeq(items, 1, Len(items) - 1))
             n == Cardinality({i \in 1..Len(front) : front[i].priority <= last.priority})
         IN SubSeq(front, 1, n) \o <<last>> \o SubSeq(front, n + 1, Len(front))

\* addHandler: this.emitHandlers[event].push(item)
AddHandler(handlers, item) == [handlers EXCEPT ![item.event] = Append(@, item)]

\* setup: for (const handler of handlers) this.addHandler(handler)
RECURSIVE AddHandlers(_, _)
AddHandlers(handlers, items) ==
    IF items = <<>> THEN handlers
    ELSE AddHandlers(AddHandler(handlers, Head(items)), Tail(items))

\* Mutant: the worker filter is left out of the discovery.
Setup_AllWorkers(services) ==
    /\ phase.setup = "constructed"
    /\ IF worker = "undefined"
       THEN /\ phase' = [phase EXCEPT !.setup = "failed", !.services = services]
            /\ UNCHANGED emitHandlers
       ELSE /\ phase' = [phase EXCEPT !.setup = "ready", !.services = services]
            /\ emitHandlers' =
                  AddHandlers(emitHandlers,
                              OrderBy([i \in 1..Len(services) |-> ItemOf(services[i])]))
    /\ UNCHANGED <<worker, authFn, runs, clients>>
    /\ UNCHANGED <<ingest, bulk, upload, dup>>

\* setup({ services }): throws when the worker is unknown; otherwise discovers the
\* handlers of this worker, orders them by priority and registers them.
Setup(services) ==
    /\ phase.setup = "constructed"
    /\ IF worker = "undefined"
       THEN /\ phase' = [phase EXCEPT !.setup = "failed", !.services = services]
            /\ UNCHANGED emitHandlers
       ELSE /\ phase' = [phase EXCEPT !.setup = "ready", !.services = services]
            /\ emitHandlers' = AddHandlers(emitHandlers, OrderBy(Discover(services, worker)))
    /\ UNCHANGED <<worker, authFn, runs, clients>>
    /\ UNCHANGED <<ingest, bulk, upload, dup>>

\* afterInit(server): server.on(event, ...) for each of serverEvents
AfterInit ==
    /\ ~phase.listening
    /\ phase' = [phase EXCEPT !.listening = TRUE]
    /\ UNCHANGED <<worker, emitHandlers, authFn, runs, clients>>
    /\ UNCHANGED <<ingest, bulk, upload, dup>>

\* setAuthFn(fn): this.authFn = fn
SetAuthFn ==
    /\ authFn = "unset"
    /\ authFn' = "set"
    /\ UNCHANGED <<worker, phase, emitHandlers, runs, clients>>
    /\ UNCHANGED <<ingest, bulk, upload, dup>>

\* onEvent, up to its first await: const handlers = this.emitHandlers[event.name] || []
OnEvent(origin, name, server) ==
    [IdleRun EXCEPT !.origin = origin, !.name = name, !.server = server,
                    !.handlers = emitHandlers[name], !.outcome = "pending"]

\* emit(event, ...args): return this.onEvent({ name: event, args, server: false })
Emit(r) ==
    /\ phase.setup = "ready"
    /\ runs[r].origin = "none"
    /\ r > 1 => runs[r - 1].origin # "none"
    /\ \E name \in EventNames :
          runs' = [runs EXCEPT ![r] = OnEvent("emit", name, FALSE)]
    /\ UNCHANGED <<worker, phase, emitHandlers, authFn, clients>>
    /\ UNCHANGED <<ingest, bulk, upload, dup>>

\* The listener of afterInit: another instance sent one of serverEvents;
\* handlePromiseError(this.onEvent({ name: event, args, server: true }), this.logger)
ServerEvent(r) ==
    /\ phase.listening
    /\ runs[r].origin = "none"
    /\ r > 1 => runs[r - 1].origin # "none"
    /\ \E name \in ServerEvents :
          runs' = [runs EXCEPT ![r] = OnEvent("server", name, TRUE)]
    /\ UNCHANGED <<worker, phase, emitHandlers, authFn, clients>>
    /\ UNCHANGED <<ingest, bulk, upload, dup>>

\* The loop of onEvent is at a handler and is not waiting for one.
AtHandler(r) ==
    /\ runs[r].outcome = "pending"
    /\ ~runs[r].active
    /\ runs[r].idx <= Len(runs[r].handlers)

\* onEvent: if (!server && event.server) continue
Excluded(r) == ~runs[r].handlers[runs[r].idx].server /\ runs[r].server

Traced(run, kind) ==
    Append(run.trace, [kind |-> kind, label |-> run.handlers[run.idx].label])

OnEventSkip(r) ==
    /\ AtHandler(r) /\ Excluded(r)
    /\ runs' = [runs EXCEPT ![r].idx = @ + 1]
    /\ UNCHANGED <<worker, phase, emitHandlers, authFn, clients>>
    /\ UNCHANGED <<ingest, bulk, upload, dup>>

\* Mutant: the handler is called and the loop goes on without awaiting it.
OnEventInvoke_NotAwaited(r) ==
    /\ AtHandler(r) /\ ~Excluded(r)
    /\ runs' = [runs EXCEPT ![r].trace = Traced(runs[r], "start"), ![r].idx = @ + 1]
    /\ UNCHANGED <<worker, phase, emitHandlers, authFn, clients>>
    /\ UNCHANGED <<ingest, bulk, upload, dup>>

\* Mutant: server events are delivered to every handler.
OnEventInvoke_NoExclusion(r) ==
    /\ AtHandler(r)
    /\ runs' = [runs EXCEPT ![r].active = TRUE, ![r].trace = Traced(runs[r], "start")]
    /\ UNCHANGED <<worker, phase, emitHandlers, authFn, clients>>
    /\ UNCHANGED <<ingest, bulk, upload, dup>>

\* onEvent: await handler(...event.args), the call
OnEventInvoke(r) ==
    /\ AtHandler(r) /\ ~Excluded(r)
    /\ runs' = [runs EXCEPT ![r].active = TRUE, ![r].trace = Traced(runs[r], "start")]
    /\ UNCHANGED <<worker, phase, emitHandlers, authFn, clients>>
    /\ UNCHANGED <<ingest, bulk, upload, dup>>

\* onEvent: await handler(...event.args), the handler's promise resolves
HandlerReturns(r) ==
    /\ runs[r].outcome = "pending" /\ runs[r].active
    /\ runs' = [runs EXCEPT ![r].active = FALSE, ![r].trace = Traced(runs[r], "return"),
                            ![r].idx = @ + 1]
    /\ UNCHANGED <<worker, phase, emitHandlers, authFn, clients>>
    /\ UNCHANGED <<ingest, bulk, upload, dup>>

\* onEvent: await handler(...event.args), the handler throws: onEvent rejects
HandlerThrows(r) ==
    /\ runs[r].outcome = "pending" /\ runs[r].active
    /\ runs' = [runs EXCEPT ![r].active = FALSE, ![r].trace = Traced(runs[r], "throw"),
                            ![r].outcome = "rejected"]
    /\ UNCHANGED <<worker, phase, emitHandlers, authFn, clients>>
    /\ UNCHANGED <<ingest, bulk, upload, dup>>

\* onEvent: the loop is over, the promise resolves
OnEventReturn(r) ==
    /\ runs[r].outcome = "pending" /\ ~runs[r].active
    /\ runs[r].idx > Len(runs[r].handlers)
    /\ runs' = [runs EXCEPT ![r].outcome = "resolved"]
    /\ UNCHANGED <<worker, phase, emitHandlers, authFn, clients>>
    /\ UNCHANGED <<ingest, bulk, upload, dup>>

\* What authFn(client) can answer: an AuthDto without or with a session.
AuthResults == {[userId |-> User, session |-> {}], [userId |-> User, session |-> {"s1"}]}

ClientEntry(op, arg) == [op |-> op, arg |-> arg]
ClientAt(c, pc, op, arg) ==
    clients' = [clients EXCEPT ![c].pc = pc, ![c].log = Append(@, ClientEntry(op, arg))]

\* handleConnection(client): a websocket client connects
HandleConnection(c) ==
    /\ phase.listening
    /\ clients[c].pc = "idle"
    /\ c > 1 => clients[c - 1].pc # "idle"
    /\ clients' = [clients EXCEPT ![c].pc = "authenticate"]
    /\ UNCHANGED <<worker, phase, emitHandlers, authFn, runs>>
    /\ UNCHANGED <<ingest, bulk, upload, dup>>

\* Mutant: without an auth function the client is let in as the user.
Authenticate_Open(c) ==
    /\ clients[c].pc = "authenticate"
    /\ \/ /\ authFn = "unset"
          /\ clients' = [clients EXCEPT ![c].pc = "joinUser",
                                        ![c].auth = [userId |-> User, session |-> {}]]
       \/ /\ authFn = "set"
          /\ \/ ClientAt(c, "catch", "authenticate", "rejected")
             \/ \E auth \in AuthResults :
                   clients' = [clients EXCEPT ![c].pc = "joinUser", ![c].auth = auth]
    /\ UNCHANGED <<worker, phase, emitHandlers, authFn, runs>>
    /\ UNCHANGED <<ingest, bulk, upload, dup>>

\* handleConnection: const auth = await this.authenticate(client)
\* authenticate: if (!this.authFn) throw new Error('Auth function not set');
\*               return this.authFn(client)
Authenticate(c) ==
    /\ clients[c].pc = "authenticate"
    /\ \/ /\ authFn = "unset"
          /\ ClientAt(c, "catch", "authenticate", "Auth function not set")
       \/ /\ authFn = "set"
          /\ \/ ClientAt(c, "catch", "authenticate", "rejected")
             \/ \E auth \in AuthResults :
                   clients' = [clients EXCEPT ![c].pc = "joinUser", ![c].auth = auth]
    /\ UNCHANGED <<worker, phase, emitHandlers, authFn, runs>>
    /\ UNCHANGED <<ingest, bulk, upload, dup>>

\* handleConnection: await client.join(auth.user.id)
JoinUser(c) ==
    /\ clients[c].pc = "joinUser"
    /\ ClientAt(c, IF clients[c].auth.session # {} THEN "joinSession" ELSE "dispatch",
                "join", clients[c].auth.userId)
    /\ UNCHANGED <<worker, phase, emitHandlers, authFn, runs>>
    /\ UNCHANGED <<ingest, bulk, upload, dup>>

\* handleConnection: if (auth.session) await client.join(auth.session.id)
JoinSession(c) ==
    /\ clients[c].pc = "joinSession"
    /\ ClientAt(c, "dispatch", "join", OrElse(clients[c].auth.session, "none"))
    /\ UNCHANGED <<worker, phase, emitHandlers, authFn, runs>>
    /\ UNCHANGED <<ingest, bulk, upload, dup>>

\* handleConnection: await this.onEvent({ name: 'WebsocketConnect', args: [{ userId }],
\*                                         server: false }), the call
DispatchConnect(c) ==
    /\ clients[c].pc = "dispatch"
    /\ ClientAt(c, "await", "onEvent", "WebsocketConnect")
    /\ runs' = [runs EXCEPT ![RunOfClient(c)] =
                   OnEvent("connection", "WebsocketConnect", FALSE)]
    /\ UNCHANGED <<worker, phase, emitHandlers, authFn>>
    /\ UNCHANGED <<ingest, bulk, upload, dup>>

\* handleConnection: the awaited onEvent settles; a rejection goes to the catch clause
ConnectionSettles(c) ==
    /\ clients[c].pc = "await"
    /\ runs[RunOfClient(c)].outcome \in {"resolved", "rejected"}
    /\ clients' = [clients EXCEPT ![c].pc =
                      IF runs[RunOfClient(c)].outcome = "resolved" THEN "connected"
                      ELSE "catch"]
    /\ UNCHANGED <<worker, phase, emitHandlers, authFn, runs>>
    /\ UNCHANGED <<ingest, bulk, upload, dup>>

\* handleConnection, catch: client.emit('error', 'unauthorized'); client.disconnect()
ConnectionCatch(c) ==
    /\ clients[c].pc = "catch"
    /\ clients' = [clients EXCEPT ![c].pc = "closed",
                     ![c].log = @ \o <<ClientEntry("emit", "error unauthorized"),
                                       ClientEntry("disconnect", "none")>>]
    /\ UNCHANGED <<worker, phase, emitHandlers, authFn, runs>>
    /\ UNCHANGED <<ingest, bulk, upload, dup>>

\* handleDisconnect(client): await client.leave(client.nsp.name)
HandleDisconnect(c) ==
    /\ clients[c].pc \in {"closed", "connected"}
    /\ ClientAt(c, "gone", "leave", "nsp")
    /\ UNCHANGED <<worker, phase, emitHandlers, authFn, runs>>
    /\ UNCHANGED <<ingest, bulk, upload, dup>>

InitEvents ==
    /\ assets = InitAssets
    /\ usage = InitUsage
    /\ quota = {}
    /\ nextId = 5
    /\ calls = [k \in CallIds |-> IdleCall]
    /\ bulk = IdleBulk
    /\ upload = IdleUpload
    /\ IdleDup
    /\ worker \in WorkerChoices
    /\ phase = Constructed
    /\ emitHandlers = NoHandlers
    /\ authFn = "unset"
    /\ runs = [r \in RunIds |-> IdleRun]
    /\ clients = [c \in SocketIds |-> IdleClient]

NextEvents ==
    \/ \E services \in ServiceChoices : Setup(services)
    \/ AfterInit
    \/ SetAuthFn
    \/ \E r \in EmitIds :
          \/ Emit(r)
          \/ ServerEvent(r)
    \/ \E r \in RunIds :
          \/ OnEventSkip(r)
          \/ OnEventInvoke(r)
          \/ HandlerReturns(r)
          \/ HandlerThrows(r)
          \/ OnEventReturn(r)
    \/ \E c \in SocketIds :
          \/ HandleConnection(c)
          \/ Authenticate(c)
          \/ JoinUser(c)
          \/ JoinSession(c)
          \/ DispatchConnect(c)
          \/ ConnectionSettles(c)
          \/ ConnectionCatch(c)
          \/ HandleDisconnect(c)

SpecEvents == InitEvents /\ [][NextEvents]_vars

\* ------------------------------------------------------------ observations

Done(k) == calls[k].pc = "done"
AllDone == \A k \in CallIds : Done(k)
OnlyUploads == \A k \in CallIds : calls[k].op \in {"none", "upload"}

\* Positions of the log entries of one kind, and of those that took effect.
At(c, op) == {i \in 1..Len(c.log) : c.log[i].op = op}
OkAt(c, op) == {i \in At(c, op) : c.log[i].src # "failed"}
FailedAt(c, op) == {i \in At(c, op) : c.log[i].src = "failed"}
MetadataJobs(c) == At(c, "AssetExtractMetadata")
RecordWrites(c) == OkAt(c, "create") \cup OkAt(c, "update") \cup At(c, "updateAll")
ValidationFailed(c) == c.err \in {"access", "quota", "link"}

RECURSIVE SumSizes(_)
SumSizes(S) ==
    IF S = {} THEN 0
    ELSE LET k == CHOOSE x \in S : TRUE
         IN Size(calls[k].checksum) + SumSizes(S \ {k})

\* ------------------------------------------------------------------ claims

\* C1: in a run of uploadAsset calls only, an upload whose insert hit the
\* (checksum, ownerId) constraint returns Duplicate with the id of the existing asset
\* of that checksum, and that asset is the only row of the owner with the checksum.
C1_DuplicateOnConflict ==
    OnlyUploads =>
        \A k \in CallIds :
            Done(k) /\ calls[k].err = "constraint" =>
                /\ calls[k].result = "Duplicate"
                /\ UploadAssetIdsByChecksum(User, calls[k].checksum) = {calls[k].resultId}

C1_Witness ==
    /\ OnlyUploads
    /\ \E k \in CallIds :
          Done(k) /\ calls[k].err = "constraint" /\ calls[k].result = "Duplicate"

\* C2: two or more uploads of one checksum that overlap and all reach the insert, with
\* no row of that checksum before them and no rejected await: exactly one returns
\* Created, every other returns Duplicate with the winner's id after exactly one create
\* attempt followed by one checksum lookup.
SameChecksum(x) ==
    {k \in CallIds : calls[k].op = "upload" /\ calls[k].checksum = x}

Racing(x) ==
    /\ OnlyUploads
    /\ \A a \in DOMAIN InitAssets :
          InitAssets[a].ownerId = User => InitAssets[a].checksum # x
    /\ \E j, k \in SameChecksum(x) : j # k /\ ~calls[j].alone /\ ~calls[k].alone
    /\ \A k \in SameChecksum(x) :
          Done(k) /\ At(calls[k], "create") # {} /\ calls[k].err # "io"

Wins(w, l) ==
    /\ calls[w].result = "Created"
    /\ calls[l].result = "Duplicate"
    /\ calls[l].resultId = calls[w].resultId
    /\ Cardinality(At(calls[l], "create")) = 1
    /\ Cardinality(At(calls[l], "lookup")) = 1
    /\ \A i \in At(calls[l], "create"), n \in At(calls[l], "lookup") : i < n

C2_FirstWriterWins ==
    \A x \in Checksums :
        Racing(x) =>
            \E w \in SameChecksum(x) :
                \A l \in SameChecksum(x) \ {w} : Wins(w, l)

C2_Witness ==
    \E x \in Checksums :
        /\ Racing(x)
        /\ \E w, l \in SameChecksum(x) : w # l /\ Wins(w, l)

\* The step in which call k returns `status` to its caller.
Returns(k, status) == calls[k].result = "none" /\ calls'[k].result = status

\* C3: when a replaceAsset that overlapped no other request returns Replaced, the
\* original id carries the new file's checksum and path, the returned id is another
\* id, and that row holds the pre-replace checksum and path with status Trashed.
C3_ReplaceKeepsIdentity ==
    [][\A k \in CallIds :
          Returns(k, "Replaced") /\ calls'[k].alone =>
              /\ calls'[k].resultId # calls[k].target
              /\ calls'[k].resultId \in DOMAIN assets'
              /\ assets'[calls[k].target].checksum = calls[k].checksum
              /\ assets'[calls[k].target].originalPath = FilePath(k)
              /\ assets'[calls'[k].resultId].checksum = calls[k].asset.checksum
              /\ assets'[calls'[k].resultId].originalPath = calls[k].asset.originalPath
              /\ assets'[calls'[k].resultId].status = "trashed"]_vars

C3_Witness ==
    \E k \in CallIds :
        /\ calls[k].result = "Replaced" /\ calls[k].alone
        /\ assets[calls[k].target].originalPath = FilePath(k)

\* C4: the quota check passes iff the quota is null or usage + file.size <= quota;
\* a call it rejects fails with an error and makes no repository create/update call,
\* no usage update and no metadata-extraction enqueue.
C4_QuotaGate ==
    \A k \in CallIds :
        LET c == calls[k] IN
        \A i \in At(c, "requireQuota") :
            /\ c.log[i].src = "ok" <=>
                  (quota = {} \/ \E q \in quota : c.authUsage + Size(c.checksum) <= q)
            /\ c.log[i].src = "failed" =>
                  /\ c.err = "quota"
                  /\ At(c, "create") = {} /\ At(c, "update") = {} /\ At(c, "updateAll") = {}
                  /\ At(c, "updateUsage") = {}
                  /\ MetadataJobs(c) = {}
                  /\ Done(k) => c.result = "Error"

C4_Witness ==
    \E j, k \in CallIds :
        /\ quota # {}
        /\ calls[j].result \in {"Created", "Replaced"}
        /\ Done(k) /\ calls[k].err = "quota"

C6_UsageBeforeJobs ==
    \A k \in CallIds :
        \A i \in At(calls[k], "updateUsage"), j \in MetadataJobs(calls[k]) : i < j

\* C6 (amended): every metadata-extraction job of a successful operation is enqueued
\* strictly before the operation's usage-ledger update.
C6_JobsBeforeUsage ==
    \A k \in CallIds :
        \A i \in At(calls[k], "updateUsage") :
            /\ MetadataJobs(calls[k]) # {}
            /\ \A j \in MetadataJobs(calls[k]) : j < i

C6_Witness ==
    \E k \in CallIds :
        /\ calls[k].result = "Replaced"
        /\ Cardinality(MetadataJobs(calls[k])) = 2
        /\ At(calls[k], "updateUsage") # {}

\* C7: the usage ledger is updated only after the operation's asset-record writes
\* have committed, and an operation with a failed asset-record write (a rejected
\* write or a checksum-uniqueness violation) never changes the ledger.
WriteFailed(c) ==
    \/ FailedAt(c, "create") \cup FailedAt(c, "update") # {}
    \/ \E i \in At(c, "rejected") : c.log[i].src \in {"create", "update", "copyCreate", "trash"}

C7_UsageAfterCommit ==
    /\ \A k \in CallIds :
          LET c == calls[k] IN
          /\ \A i \in At(c, "updateUsage") :
                /\ \E j \in OkAt(c, "create") : j < i
                /\ c.op = "replace" =>
                      /\ \E j \in OkAt(c, "update") : j < i
                      /\ \E j \in At(c, "updateAll") : j < i
          /\ WriteFailed(c) => At(c, "updateUsage") = {}
    /\ usage = InitUsage + SumSizes({k \in CallIds : ~WriteFailed(calls[k])
                                        /\ At(calls[k], "updateUsage") # {}})

C7_Witness ==
    \E j, k \in CallIds :
        /\ calls[j].result = "Created"
        /\ Done(k) /\ calls[k].err = "constraint" /\ WriteFailed(calls[k])

\* One file-delete job, naming the received file and its sidecar.
CleanedUpOnce(k) ==
    \E i \in At(calls[k], "FileDelete") :
        /\ At(calls[k], "FileDelete") = {i}
        /\ calls[k].log[i].files = UploadFiles(k, calls[k])

\* The row the failed write of call k collided with.
CollidedWith(c) ==
    {c.log[i].id : i \in FailedAt(c, "create") \cup FailedAt(c, "update")}

C9_CreatedEffects ==
    [][\A k \in CallIds :
          Returns(k, "Created") =>
              /\ usage' = usage + Size(calls[k].checksum)
              /\ Cardinality(At(calls'[k], "updateUsage")) = 1
              /\ calls'[k].resultId \in DOMAIN assets'
              /\ \E j \in MetadataJobs(calls'[k]) :
                    /\ MetadataJobs(calls'[k]) = {j}
                    /\ calls'[k].log[j].src = "upload"
                    /\ calls'[k].log[j].id = calls'[k].resultId]_vars

C9_Witness ==
    \E k \in CallIds :
        calls[k].result = "Created" /\ usage = InitUsage + Size(calls[k].checksum)

\* C10: once all calls have finished, the usage equals the initial usage plus the
\* file sizes of exactly the calls that returned Created or Replaced.
C10_NoLostUpdate ==
    AllDone =>
        usage = InitUsage +
                SumSizes({k \in CallIds : calls[k].result \in {"Created", "Replaced"}})

C10_Witness ==
    /\ AllDone
    /\ \E j, k \in CallIds :
          /\ j # k
          /\ ~calls[j].alone /\ ~calls[k].alone
          /\ calls[j].result \in {"Created", "Replaced"}
          /\ calls[k].result \in {"Created", "Replaced"}

\* C11: in an uploadAsset with livePhotoVideoId set, the before-link validation
\* precedes the asset create call; when it fails no asset is created, no filesystem
\* timestamp is changed, the usage is not updated and no metadata job is enqueued.
C11_LinkBeforeCreate ==
    \A k \in CallIds :
        LET c == calls[k] IN
        c.op = "upload" /\ c.live # Null =>
            /\ \A i \in At(c, "create") : \E j \in OkAt(c, "onBeforeLink") : j < i
            /\ FailedAt(c, "onBeforeLink") # {} =>
                  /\ At(c, "create") = {} /\ At(c, "utimes") = {}
                  /\ At(c, "updateUsage") = {} /\ MetadataJobs(c) = {}
                  /\ \A a \in DOMAIN assets : assets[a].originalPath # FilePath(k)
                  /\ Done(k) => c.result = "Error"

C11_Witness ==
    \E j, k \in CallIds :
        /\ calls[j].op = "upload" /\ calls[j].live # Null /\ calls[j].result = "Created"
        /\ calls[k].op = "upload" /\ Done(k) /\ FailedAt(calls[k], "onBeforeLink") # {}

\* The effects of a call in the order they happened: the log without the checks
\* (access, lookup by id, quota), the failed or rejected steps and the error handler.
Effects(c) ==
    SelectSeq(c.log, LAMBDA e :
        /\ e.src # "failed"
        /\ e.op \notin {"requireAccess", "getById", "requireQuota", "onBeforeLink",
                        "rejected", "FileDelete", "lookup"})

\* C12 (as claimed): in replaceAsset the copy is marked Trashed and AssetTrash is
\* emitted before the metadata-extraction job of the copy (source "copy") is enqueued.
C12_TrashBeforeCopyJob ==
    \A k \in CallIds :
        LET c == calls[k] IN
        c.op = "replace" =>
            \A j \in MetadataJobs(c), i \in At(c, "updateAll") \cup At(c, "AssetTrash") :
                c.log[j].src = "copy" => i < j

\* The order of the effects of replaceAsset in the code.
ReplaceOrder ==
    <<"update", "utimes", "exif", "AssetExtractMetadata",
      "create", "stat", "exif", "AssetExtractMetadata",
      "updateAll", "AssetTrash", "updateUsage">>

\* C12 (amended): the effects of replaceAsset happen in the order in-place update,
\* utimes, exif, metadata job (source "upload", existing id), copy row, stat, exif,
\* metadata job (source "copy", copy id), copy marked Trashed, AssetTrash, usage update:
\* the job of the copy is enqueued before the copy is trashed and the event emitted.
C12_CopyJobBeforeTrash ==
    \A k \in CallIds :
        LET c == calls[k]
            e == Effects(c)
        IN
        c.op = "replace" =>
            /\ Len(e) <= Len(ReplaceOrder)
            /\ \A i \in 1..Len(e) : e[i].op = ReplaceOrder[i]
            /\ Len(e) >= 4 => e[4].src = "upload" /\ e[4].id = c.target
            /\ Len(e) >= 8 => e[8].src = "copy" /\ e[8].id = c.newId
            /\ Len(e) >= 10 => e[9].id = c.newId /\ e[10].id = c.newId
            /\ c.result = "Replaced" => Len(e) = Len(ReplaceOrder)

C12_Witness ==
    \E k \in CallIds :
        /\ calls[k].op = "replace" /\ calls[k].result = "Replaced"
        /\ Len(Effects(calls[k])) = Len(ReplaceOrder)

\* C13: bulkUploadCheck returns one result per item, in input order, with the item's
\* client id: Reject / Duplicate with the existing asset's id and isTrashed = (deletedAt
\* set) iff the owner has an asset with the item's checksum, Accept otherwise; and the
\* call changes no repository, ledger or request state.
OwnedWith(bytes) ==
    {a \in DOMAIN assets : assets[a].ownerId = User /\ assets[a].checksum = bytes}

C13_BulkCheck ==
    [][bulk'.pc = "done" /\ bulk.pc # "done" =>
          /\ UNCHANGED <<assets, usage, quota, nextId, calls>>
          /\ Len(bulk'.results) = Len(bulk.dto)
          /\ \A i \in 1..Len(bulk.dto) :
                LET r == bulk'.results[i]
                    owned == OwnedWith(bulk.dto[i].checksum.bytes)
                IN
                /\ r.id = bulk.dto[i].id
                /\ r.action \in {"accept", "reject"}
                /\ r.action = "reject" <=> owned # {}
                /\ r.action = "reject" =>
                      /\ r.reason = "duplicate"
                      /\ r.assetId \in owned
                      /\ r.isTrashed = DeletedAt(assets[r.assetId])
                /\ r.action = "accept" => r.assetId = Null]_vars

C13_Witness ==
    /\ bulk.pc = "done"
    /\ Len(bulk.results) = 2
    /\ bulk.dto[1].id # bulk.dto[2].id
    /\ bulk.dto[1].checksum.enc = "base64"
    /\ bulk.results[1].action = "reject" /\ bulk.results[1].isTrashed
    /\ bulk.results[2].action = "accept" /\ bulk.dto[2].checksum.bytes = 1

\* C14: canUploadFile returns true only for a request with upload access whose file
\* type is supported for the declared field; in every other case it throws; a file
\* accepted under one field is rejected under every field that does not support it.
Supports(fieldName, ext) ==
    \/ fieldName = "assetData" /\ IsAsset(ext)
    \/ fieldName = "sidecarData" /\ IsSidecar(ext)
    \/ fieldName = "profileData" /\ IsProfile(ext)

C14_CanUploadFile ==
    upload.pc = "done" =>
        /\ upload.outcome \in {"true", "Unauthorized", "BadRequest"}
        /\ upload.outcome = "true" <=>
              HasUploadAccess(upload.auth) /\ Supports(upload.fieldName, upload.ext)
        /\ upload.outcome = "true" =>
              \A other \in FieldNames :
                  ~Supports(other, upload.ext) =>
                      CanUploadFile(upload.auth, other, upload.ext) = "BadRequest"

C14_Witness ==
    /\ upload.pc = "done" /\ upload.outcome = "BadRequest"
    /\ upload.fieldName = "assetData" /\ upload.ext = "xmp"
    /\ CanUploadFile(upload.auth, "sidecarData", upload.ext) = "true"

\* The AssetTrash handlers of call c rejected.
EmitRejected(c) == \E i \in At(c, "rejected") : c.log[i].src = "emit"

\* C28 (as claimed): a replaceAsset whose AssetTrash subscriber fails or does not
\* finish still returns Replaced with the copy id and updates the usage ledger.
C28_EmitFireAndForget ==
    \A k \in CallIds : LET c == calls[k] IN
        c.op = "replace" /\ Done(k) /\ EmitRejected(c) =>
            /\ c.result = "Replaced" /\ c.resultId = c.newId
            /\ At(c, "updateUsage") # {}

\* C28 (amended): replaceAsset awaits the emit, and the emit awaits its handlers.  The
\* usage ledger is updated, and Replaced returned, only after the handlers of
\* AssetTrash have returned; when they reject, replaceAsset takes the upload-error
\* path: the uploaded files are queued for deletion, the ledger is not updated and
\* the error is rethrown, while the copy stays trashed.
C28_EmitAwaited ==
    \A k \in CallIds : LET c == calls[k] IN
        c.op = "replace" =>
            /\ \A i \in At(c, "updateUsage") : \E j \in At(c, "AssetTrash") : j < i
            /\ c.result = "Replaced" => At(c, "AssetTrash") # {}
            /\ c.pc = "emit" => At(c, "updateUsage") = {} /\ c.result = "none"
            /\ EmitRejected(c) =>
                  /\ At(c, "AssetTrash") = {} /\ At(c, "updateUsage") = {}
                  /\ c.result # "Replaced"
                  /\ Done(k) => c.result = "Error" /\ At(c, "FileDelete") # {}
                  /\ c.newId \in DOMAIN assets /\ assets[c.newId].status = "trashed"

C28_Witness ==
    \E k \in CallIds : LET c == calls[k] IN
        /\ c.op = "replace" /\ Done(k) /\ EmitRejected(c)
        /\ c.result = "Error" /\ usage = InitUsage
        /\ assets[c.newId].status = "trashed"
        /\ \A j \in CallIds \ {k} : calls[j].pc = "idle"

\* No other replaceAsset works on the original or on the copy of call k.
Undisturbed(k) ==
    \A j \in CallIds \ {k} :
        calls[j].op = "replace" =>
            {calls[j].target, calls[j].newId} \cap {calls[k].target, calls[k].newId}
                \subseteq {Null}

\* C29: after a successful replaceAsset (on which no other replace interferes) the
\* record of the original id has the new file's checksum, path, name and time,
\* livePhotoVideoId null and the new sidecar path, null when none was uploaded; the
\* copy, a different record, is trashed and holds the checksum, path, name, time,
\* livePhotoVideoId and sidecar path the original had when replaceAsset read it,
\* before its update.
C29_ReplaceFields ==
    \A k \in CallIds : LET c == calls[k] IN
        c.op = "replace" /\ c.result = "Replaced" /\ Undisturbed(k) =>
            /\ c.resultId # c.target
            /\ assets[c.target] =
                  [ownerId |-> c.asset.ownerId, status |-> c.asset.status,
                   checksum |-> c.checksum, originalPath |-> FilePath(k),
                   originalFileName |-> FileNameOf(FilePath(k)),
                   fileModifiedAt |-> FileModifiedAtOf(FilePath(k)),
                   livePhotoVideoId |-> Null,
                   sidecarPath |-> IF c.sidecar THEN SidecarPathOf(k) ELSE Null]
            /\ assets[c.resultId] = [c.asset EXCEPT !.status = "trashed"]
            /\ c.target \in DOMAIN InitAssets => c.asset = InitAssets[c.target]
            /\ assets[c.resultId].checksum # assets[c.target].checksum
            /\ assets[c.resultId].originalPath # assets[c.target].originalPath

C29_Witness ==
    \E k \in CallIds : LET c == calls[k] IN
        /\ c.op = "replace" /\ c.result = "Replaced" /\ c.target = 1 /\ ~c.sidecar
        /\ assets[1].livePhotoVideoId = Null /\ assets[1].sidecarPath = Null
        /\ assets[c.resultId].livePhotoVideoId = 3 /\ assets[c.resultId].sidecarPath = 6
        /\ assets[c.resultId].originalFileName = FileNameOf(1)
        /\ assets[c.resultId].status = "trashed"

\* The log entries call k appends in this step.
NewEntries(k) == {i \in 1..Len(calls'[k].log) : i > Len(calls[k].log)}

\* C30: when uploadAsset or replaceAsset enqueues a metadata-extraction job, the id it
\* names is that of a record in the Asset Repository at that moment, which this call
\* created or updated before; and after a create that failed the call enqueues no
\* metadata-extraction job.
C30_JobNamesExistingAsset ==
    [][\A k \in CallIds :
          \A i \in NewEntries(k) :
              LET e == calls'[k].log[i] IN
              e.op = "AssetExtractMetadata" =>
                  /\ e.id # Null /\ e.id \in DOMAIN assets /\ e.id \in DOMAIN assets'
                  /\ assets[e.id].ownerId # "none"
                  /\ \E j \in 1..(i - 1) :
                        /\ calls'[k].log[j].op \in {"create", "update"}
                        /\ calls'[k].log[j].src = "ok"
                        /\ calls'[k].log[j].id = e.id
                  /\ \A j \in FailedAt(calls'[k], "create") : i < j]_vars

C30_Witness ==
    \E k \in CallIds : LET c == calls[k] IN
        /\ c.op = "replace" /\ FailedAt(c, "create") # {}
        /\ Cardinality(MetadataJobs(c)) = 1
        /\ \E j \in CallIds : calls[j].op = "upload" /\ calls[j].result = "Created"
                                /\ Cardinality(MetadataJobs(calls[j])) = 1

\* The steps of call k: the only ones that change its record.
StepOf(k) == calls'[k] # calls[k]

\* Paths held by the record of asset id.
PathsOf(id) == {assets[id].originalPath, assets[id].sidecarPath} \ {Null}

\* C31: an uploadAsset call that returns Duplicate has written no asset record, made
\* no usage update and enqueued no metadata-extraction job; its one file-delete job
\* names the received file (and sidecar) and no path of the asset it reports; and its
\* steps from the failed insert to the return leave the usage ledger and every asset
\* record as they were.
C31_DuplicateFrame ==
    /\ [](\A k \in CallIds :
            LET c == calls[k] IN
            c.op = "upload" /\ c.result = "Duplicate" =>
                /\ RecordWrites(c) = {} /\ At(c, "updateUsage") = {}
                /\ MetadataJobs(c) = {}
                /\ CleanedUpOnce(k)
                /\ c.resultId \in DOMAIN assets
                /\ \A i \in At(c, "FileDelete") :
                      c.log[i].files \cap PathsOf(c.resultId) = {})
    /\ [][\A k \in CallIds :
            StepOf(k) /\ calls'[k].op = "upload" /\ calls'[k].err = "constraint" =>
                /\ usage' = usage
                /\ assets' = assets]_vars

C31_Witness ==
    \E k \in CallIds :
        LET c == calls[k] IN
        /\ c.op = "upload" /\ c.result = "Duplicate" /\ c.sidecar
        /\ \E j \in CallIds :
              /\ calls[j].result = "Created" /\ calls[j].resultId = c.resultId
              /\ assets[c.resultId].originalPath = FilePath(j)
        /\ \E i \in At(c, "FileDelete") : c.log[i].files = {FilePath(k), SidecarPathOf(k)}

\* Paths named by the file-delete jobs the service has enqueued.
DeletedPaths ==
    UNION {UNION {calls[k].log[i].files : i \in At(calls[k], "FileDelete")} : k \in CallIds}

\* C32: no asset record's originalPath or sidecarPath is a path named by an enqueued
\* file-delete job, in any state reachable through uploadAsset and replaceAsset,
\* failures after the record write included.
C32_NoRecordedPathDeleted ==
    \A id \in DOMAIN assets : PathsOf(id) \cap DeletedPaths = {}

\* The four fields of a record that replaceAsset rewrites.
Replaceable(row) ==
    <<row.checksum, row.originalPath, row.livePhotoVideoId, row.sidecarPath>>

\* C33: when a replaceAsset call (one that overlapped no other call) ends without
\* returning Replaced, the record of asset id holds the checksum, originalPath,
\* livePhotoVideoId and sidecarPath it had when the call read it, and no copy asset
\* is in the repository.
C33_FailedReplaceLeavesNoTrace ==
    [][\A k \in CallIds :
          LET c == calls'[k] IN
          /\ StepOf(k) /\ c.pc = "done" /\ c.op = "replace" /\ c.alone
          /\ c.result # "Replaced"
          => /\ c.asset = NoRow => RecordWrites(c) = {}
             /\ c.asset # NoRow => Replaceable(assets'[c.target]) = Replaceable(c.asset)
             /\ c.newId = Null]_vars

\* C34: for an owner with a quota, whatever the interleaving of uploadAsset and
\* replaceAsset calls that each checked the quota against the usage read at request
\* time, the usage ledger never exceeds the quota.
C34_UsageWithinQuota ==
    \A q \in quota : usage <= q

\* C35: when the upload-error handler, after a checksum-uniqueness violation, looks
\* the received checksum up and finds no asset of the caller, the call fails with an
\* internal server error, not Duplicate or Created or Replaced, and the file-delete
\* job for the received file (and sidecar) has been enqueued before.
C35_LookupMiss ==
    [][\A k \in CallIds :
          /\ StepOf(k) /\ calls[k].pc = "lookup"
          /\ UploadAssetIdsByChecksum(User, calls[k].checksum) = {}
          => /\ calls[k].err = "constraint"
             /\ calls'[k].pc = "done"
             /\ calls'[k].result = "InternalServerError"
             /\ calls'[k].resultId = Null
             /\ CleanedUpOnce(k)
             /\ At(calls'[k], "FileDelete") = At(calls[k], "FileDelete")]_vars

C35_Witness ==
    \E k \in CallIds :
        LET c == calls[k] IN
        /\ Done(k) /\ c.err = "constraint" /\ c.result = "InternalServerError"
        /\ UploadAssetIdsByChecksum(User, c.checksum) = {}
        /\ CollidedWith(c) # {}
        /\ \A id \in CollidedWith(c) : assets[id].checksum # c.checksum
        /\ \E i \in At(c, "lookup") : c.log[i].src = "none"
        /\ CleanedUpOnce(k)

\* C36: the step in which replaceAsset returns Replaced adds exactly the new file's
\* size to the usage ledger, and no other step of a replaceAsset call changes the
\* ledger; the call has then enqueued exactly two metadata-extraction jobs, first one
\* for the original id with source "upload", then one for the copy id with source
\* "copy".  A replaceAsset for an id that is not in the repository makes no usage
\* update and enqueues no metadata-extraction job.
C36_ReplacedEffects ==
    [][\A k \in CallIds :
          LET c == calls'[k] IN
          StepOf(k) /\ c.op = "replace" =>
              /\ Returns(k, "Replaced") =>
                    /\ usage' = usage + Size(c.checksum)
                    /\ Cardinality(At(c, "updateUsage")) = 1
                    /\ c.resultId # c.target
                    /\ \E i, j \in MetadataJobs(c) :
                          /\ MetadataJobs(c) = {i, j} /\ i < j
                          /\ c.log[i].id = c.target /\ c.log[i].src = "upload"
                          /\ c.log[j].id = c.resultId /\ c.log[j].src = "copy"
              /\ ~Returns(k, "Replaced") =>
                    usage' = usage /\ At(c, "updateUsage") = {}
              /\ c.target \notin DOMAIN assets =>
                    /\ usage' = usage /\ At(c, "updateUsage") = {}
                    /\ MetadataJobs(c) = {}
                    /\ c.result \notin {"Replaced", "Duplicate"}]_vars

C36_Witness ==
    \E j, k \in CallIds :
        /\ calls[k].op = "replace" /\ calls[k].result = "Replaced"
        /\ usage = InitUsage + Size(calls[k].checksum)
        /\ Cardinality(MetadataJobs(calls[k])) = 2
        /\ calls[j].op = "replace" /\ Done(j)
        /\ calls[j].target \in MissingIds /\ calls[j].result = "Error"

\* ------------------------------------------------- claims: duplicate engine

HitIds(r) == {r.hits[i].assetId : i \in 1..Len(r.hits)}
Carries(lib, d) == {a \in DOMAIN lib : lib[a].exists /\ lib[a].duplicateId = d}

\* What the job read is still true: the subject and the hits exist and carry the
\* duplicateIds the job saw.
ViewCurrent(r) ==
    /\ library[r.id].exists
    /\ library[r.id].duplicateId = r.asset.duplicateId
    /\ \A i \in 1..Len(r.hits) :
          /\ library[r.hits[i].assetId].exists
          /\ library[r.hits[i].assetId].duplicateId = r.hits[i].duplicateId

\* Worker w performs its merge in this step.
Merges(w) == workers[w].pc = "merge" /\ workers'[w].pc = "status"

\* C15: when a job merges for a subject whose hits are in two or more clusters (B in
\* X, C in Y), then after the merge the subject, the hits and all former members of
\* those clusters carry one and the same of these ids, and the other ids have no
\* member left.
C15_TransitiveMerge ==
    [][\A w \in WorkerIds :
          LET r == workers[w]
              ids == SeqRange(HitDuplicateIds(r.hits))
          IN
          Merges(w) /\ ViewCurrent(r) /\ Cardinality(ids) >= 2 =>
              \E target \in ids :
                  /\ \A a \in {r.id} \cup HitIds(r) \cup UNION {Carries(library, x) : x \in ids} :
                        library'[a].duplicateId = target
                  /\ \A x \in ids \ {target} : Carries(library', x) = {}]_vars

C15_Witness ==
    \E w \in WorkerIds :
        LET r == workers[w] IN
        /\ r.pc = "status" /\ Len(r.merges) = 1
        /\ Cardinality(SeqRange(HitDuplicateIds(r.hits))) = 2
        /\ r.merges[1].sourceIds # <<>>
        /\ \A a \in DupAssetIds :
              library[a].exists /\ library[a].duplicateId = r.merges[1].targetId
        /\ HitIds(r) \cup {r.id} # DupAssetIds

\* C16 (as claimed, here even without any asset removed): in every state with no job
\* in flight no duplicateId is carried by exactly one asset.
C16_NoSingletonCluster ==
    (\A w \in WorkerIds : ~Working(w)) /\ Removed = {} =>
        \A a \in DOMAIN library :
            library[a].duplicateId # Null =>
                Cardinality(Carries(library, library[a].duplicateId)) >= 2

C18_NewCluster ==
    [][\A w \in WorkerIds :
          LET r == workers[w]
              fresh == r.asset.duplicateId = Null /\ r.hits # <<>>
                          /\ \A i \in 1..Len(r.hits) : r.hits[i].duplicateId = Null
          IN
          /\ Merges(w) /\ fresh =>
                LET m == workers'[w].merges[1] IN
                /\ r.merges = <<>> /\ Len(workers'[w].merges) = 1
                /\ Len(m.assetIds) = Len(r.hits) + 1
                /\ SeqRange(m.assetIds) = HitIds(r) \cup {r.id}
                /\ m.sourceIds = <<>>
                /\ m.targetId # Null /\ Carries(library, m.targetId) = {}
                /\ \A a \in HitIds(r) \cup {r.id} :
                      library[a].exists => library'[a].duplicateId = m.targetId
          /\ r.pc = "status" /\ workers'[w].pc = "done" /\ fresh =>
                Len(r.merges) = 1 /\ workers'[w].result = "Success"]_vars

C18_Witness ==
    \E w \in WorkerIds :
        LET r == workers[w] IN
        /\ r.pc = "status" /\ r.asset.duplicateId = Null /\ Len(r.hits) = 2
        /\ \A i \in 1..Len(r.hits) : r.hits[i].duplicateId = Null
        /\ Len(r.merges) = 1 /\ Len(r.merges[1].assetIds) = 3
        /\ \A a \in HitIds(r) \cup {r.id} : library[a].duplicateId = r.merges[1].targetId

\* C19: a subject without duplicateId whose only hit carries d: merge is invoked with
\* targetId d, assetIds the subject alone, and no source id.
C19_JoinExisting ==
    [][\A w \in WorkerIds :
          LET r == workers[w] IN
          /\ Merges(w)
          /\ r.asset.duplicateId = Null /\ Len(r.hits) = 1 /\ r.hits[1].duplicateId # Null
          => workers'[w].merges = <<MergeCall(<<r.id>>, r.hits[1].duplicateId, <<>>)>>]_vars

C19_Witness ==
    \E w \in WorkerIds :
        LET r == workers[w] IN
        /\ r.pc = "status" /\ r.asset.duplicateId = Null
        /\ Len(r.hits) = 1 /\ r.hits[1].duplicateId # Null
        /\ r.merges = <<MergeCall(<<r.id>>, r.hits[1].duplicateId, <<>>)>>
        /\ library[r.id].duplicateId = library[r.hits[1].assetId].duplicateId

\* C20: with zero hits the job never invokes merge and returns Success; a subject that
\* holds a duplicateId has it cleared (and nothing else changes), and for a subject
\* that holds none no duplicateId changes.
C20_NoHits ==
    [][\A w \in WorkerIds :
          LET r == workers[w] IN
          /\ r.pc = "search" /\ workers'[w].pc # "search" /\ workers'[w].hits = <<>> =>
                /\ workers'[w].pc = IF r.asset.duplicateId # Null THEN "clear" ELSE "status"
                /\ library' = library
          /\ r.pc = "clear" /\ workers'[w].pc # "clear" =>
                /\ r.hits = <<>> /\ workers'[w].merges = <<>>
                /\ \A a \in DOMAIN library :
                      library'[a].duplicateId =
                          IF a = r.id THEN Null ELSE library[a].duplicateId
          /\ r.pc = "status" /\ workers'[w].pc # "status" /\ r.hits = <<>> =>
                /\ r.merges = <<>>
                /\ workers'[w].result = "Success"
                /\ library' = library]_vars

C20_Witness ==
    \E w \in WorkerIds :
        LET r == workers[w] IN
        /\ r.pc = "status" /\ r.hits = <<>> /\ r.updates = <<r.id>>
        /\ r.asset.duplicateId # Null
        /\ library[r.id].exists /\ library[r.id].duplicateId = Null

\* C21: in every state the assets that share a duplicateId have one owner, and an
\* asset carries a single duplicateId (or none); every hit a search returns is an
\* asset of the subject's owner, and every asset a merge reassigns is one too.
C21_OneOwnerPerCluster ==
    /\ [](\A a, b \in DOMAIN library :
             /\ library[a].duplicateId \in Nat
             /\ library[a].exists /\ library[b].exists
                  /\ library[a].duplicateId # Null
                  /\ library[a].duplicateId = library[b].duplicateId
                => library[a].ownerId = library[b].ownerId)
    /\ [][\A w \in WorkerIds :
             LET r == workers[w] IN
             /\ r.pc = "search" /\ workers'[w].pc # "search" =>
                   \A a \in HitIds(workers'[w]) : library[a].ownerId = library[r.id].ownerId
             /\ Merges(w) =>
                   \A a \in DOMAIN library :
                       library'[a].duplicateId # library[a].duplicateId =>
                           library[a].ownerId = library[r.id].ownerId]_vars

C21_Witness ==
    /\ \A a \in {1, 2} \cup OtherAssetIds : library[a].exists /\ library[a].duplicateId # Null
    /\ \E a \in {1, 2}, b \in OtherAssetIds :
          /\ Distance(library[a].embedding, library[b].embedding) = 0
          /\ library[a].duplicateId # library[b].duplicateId
    /\ \A w \in WorkerIds : ~Working(w)

\* The job of worker w ends in this step, right after it read its asset.
EndsAtEntry(w) == workers[w].pc = "get" /\ workers'[w].pc = "done"

Missing(id) == id \notin DOMAIN library \/ ~library[id].exists

Disabled == ~config.machineLearning \/ ~config.duplicateDetection

\* C23: with machine learning or duplicate detection disabled a job returns Skipped
\* straight after reading the configuration: it never gets to read its asset, and
\* no duplicateId and no timestamp changes.
C23_DisabledSkips ==
    /\ [](Disabled => \A w \in WorkerIds : workers[w].pc \in {"idle", "config", "done"})
    /\ [][Disabled /\ workers' # workers =>
             /\ library' = library /\ detectedAt' = detectedAt /\ config' = config
             /\ \A w \in WorkerIds :
                   workers[w].pc = "config" /\ workers'[w] # workers[w] =>
                       workers'[w] = [IdleWorker EXCEPT !.pc = "done", !.result = "Skipped"]]_vars

C23_Witness ==
    /\ config.machineLearning /\ ~config.duplicateDetection
    /\ workers[1].pc = "done" /\ workers[1].result = "Skipped"
    /\ workers[2].pc = "config"

\* Worker w writes the job status and returns in this step.
Stamps(w) == workers[w].pc = "status" /\ workers'[w].pc = "done"

\* C26 (as claimed): when a job that reached the decision returns, the subject and
\* every hit have a duplicatesDetectedAt.
C26_SubjectAndHitsStamped ==
    [][\A w \in WorkerIds :
          Stamps(w) => {workers[w].id} \cup HitIds(workers[w]) \subseteq detectedAt']_vars

\* C26 (amended): the job writes duplicatesDetectedAt for the assets its merge
\* reassigned (the assetIds of the merge call), for the subject alone when there was
\* no hit, and for no other asset; no other step writes a timestamp.
C26_ReassignedStamped ==
    [][/\ \A w \in WorkerIds :
             LET r == workers[w] IN
             Stamps(w) =>
                 /\ r.hits # <<>> =>
                       /\ Len(r.merges) = 1
                       /\ detectedAt' = detectedAt \cup SeqRange(r.merges[1].assetIds)
                 /\ r.hits = <<>> => detectedAt' = detectedAt \cup {r.id}
       /\ (\A w \in WorkerIds : ~Stamps(w)) => detectedAt' = detectedAt]_vars

C26_Witness ==
    /\ workers[1].pc = "done" /\ workers[1].result = "Success"
    /\ workers[2].pc = "idle"
    /\ detectedAt = {1, 2}
    /\ library[1].duplicateId # Null
    /\ library[1].duplicateId = library[2].duplicateId
    /\ library[3].duplicateId = Null

\* The reassignments merge m stands for, on the library as it is when m runs.
Reassigned(m) ==
    {a \in DOMAIN library :
        /\ library[a].exists
        /\ \/ a \in SeqRange(m.assetIds)
           \/ library[a].duplicateId # Null /\ library[a].duplicateId \in SeqRange(m.sourceIds)}

\* Worker w's merge is rejected in this step.
MergeRejected(w) ==
    workers[w].pc = "merge" /\ workers'[w].pc = "done" /\ workers'[w].result = "Throws"

RECURSIVE Flatten(_)
Flatten(pages) == IF pages = <<>> THEN <<>> ELSE Head(pages) \o Flatten(Tail(pages))

\* C24: with machine learning or duplicate detection disabled the driver returns
\* Skipped straight after reading the configuration, whatever the force flag: it
\* opens no stream and never calls queueAll.
C24_DriverSkips ==
    /\ [](Disabled =>
            /\ driver.pc \in {"idle", "config", "done"}
            /\ driver.queueAll = <<>> /\ driver.jobs = <<>> /\ driver.streamArg = "none"
            /\ driver.pc = "done" => driver.result = "Skipped")
    /\ [][Disabled /\ driver.pc = "config" /\ driver' # driver =>
             driver' = [IdleDriver EXCEPT !.pc = "done", !.result = "Skipped",
                                          !.force = driver.force]]_vars

C24_Witness ==
    /\ ~config.machineLearning /\ config.duplicateDetection
    /\ driver.pc = "done" /\ driver.force = "true" /\ driver.result = "Skipped"
    /\ driver.queueAll = <<>>
    /\ detectedAt # DupAssetIds

\* C25: with both features enabled the stream is opened with the force flag as the
\* job carries it, and when the driver returns Success the jobs handed to queueAll
\* are, in the order yielded, one AssetDetectDuplicates job per asset the stream
\* yielded, with that asset's id; while it runs, the jobs handed over and the jobs
\* buffered are those of the assets yielded so far.
C25_OneJobPerCandidate ==
    ~Disabled /\ driver.pc \in {"stream", "done"} =>
        /\ driver.streamArg = driver.force
        /\ Flatten(driver.queueAll) \o driver.jobs
              = [i \in 1..Len(driver.yielded) |-> DetectJob(driver.yielded[i])]
        /\ \A i, j \in 1..Len(driver.yielded) :
              i # j => driver.yielded[i] # driver.yielded[j]
        /\ driver.pc = "done" =>
              /\ driver.result = "Success" /\ driver.jobs = <<>> /\ driver.stream = <<>>

C25_Witness ==
    /\ ~Disabled /\ driver.pc = "done" /\ driver.force = "undefined"
    /\ Len(driver.yielded) = 3 /\ Len(driver.queueAll) = 2
    /\ Cardinality(detectedAt) = 1
    /\ {driver.yielded[i] : i \in 1..3} = DupAssetIds \ detectedAt

\* --------------------------------------------------- claims: event repository

\* The labels of the handlers a run has called, in call order.
Started(run) ==
    LET starts == SelectSeq(run.trace, LAMBDA e : e.kind = "start")
    IN [i \in 1..Len(starts) |-> starts[i].label]

\* Position of a handler in the discovery order of setup.
DiscoveryIndex(label) == CHOOSE i \in 1..Len(phase.services) : phase.services[i] = label

\* Handler a is registered before handler b: lower priority value, or the same
\* priority and discovered first.
Before(a, b) ==
    \/ ItemOf(a).priority < ItemOf(b).priority
    \/ ItemOf(a).priority = ItemOf(b).priority /\ DiscoveryIndex(a) < DiscoveryIndex(b)

\* C37: emit calls the handlers registered for the event one at a time: every call is
\* followed by that handler's return or throw before the next call; the calls are in
\* ascending priority order, in discovery order among equal priorities; a throw is
\* the last entry of the emit, which then rejects towards the emitter; and an emit
\* that resolved has called every handler registered for the event once.
C37_SequentialByPriority ==
    \A r \in RunIds :
        LET run == runs[r] IN
        run.origin = "emit" =>
            /\ \A i \in 1..Len(run.trace) :
                  IF i % 2 = 1
                  THEN /\ run.trace[i].kind = "start"
                       /\ i = Len(run.trace) => run.active
                  ELSE /\ run.trace[i].kind \in {"return", "throw"}
                       /\ run.trace[i].label = run.trace[i - 1].label
            /\ \A i, j \in 1..Len(Started(run)) :
                  i < j => Before(Started(run)[i], Started(run)[j])
            /\ \A i \in 1..Len(run.trace) :
                  run.trace[i].kind = "throw" =>
                      i = Len(run.trace) /\ run.outcome = "rejected"
            /\ run.outcome = "rejected" =>
                  run.trace # <<>> /\ run.trace[Len(run.trace)].kind = "throw"
            /\ run.outcome = "resolved" =>
                  /\ Len(Started(run)) = Len(emitHandlers[run.name])
                  /\ \A i \in 1..Len(Started(run)) :
                        Started(run)[i] = emitHandlers[run.name][i].label

C37_Witness ==
    \E r, q \in RunIds :
        /\ runs[r].origin = "emit" /\ runs[r].outcome = "resolved"
        /\ Started(runs[r]) = <<"h2", "h6", "h3", "h1">>
        /\ runs[q].origin = "emit" /\ runs[q].outcome = "rejected"
        /\ Started(runs[q]) = <<"h2", "h6">>

\* The labels registered for an event, in list order, and those among them that
\* accept server events.
Registered(name) == [i \in 1..Len(emitHandlers[name]) |-> emitHandlers[name][i].label]
ForServer(label) == OrElse(Declarations[label].server, FALSE)
RegisteredForServer(name) == SelectSeq(Registered(name), ForServer)

\* C38: an event received from another instance is delivered only to handlers
\* declared with server = true, and once its delivery is over, to all of those that
\* are registered; an event emitted locally (emit, or the WebsocketConnect of a
\* connection) is delivered to every handler registered for it; the registered
\* handlers are exactly the discovered ones of that event whose workers include the
\* current worker, so a handler of another worker is never called.
C38_Delivery ==
    /\ \A r \in RunIds :
          LET run == runs[r] IN
          /\ \A i \in 1..Len(Started(run)) :
                /\ Declarations[Started(run)[i]].name = run.name
                /\ worker \in WorkersOf(Started(run)[i])
                /\ run.origin = "server" => ForServer(Started(run)[i])
          /\ run.outcome = "resolved" =>
                Started(run) = IF run.handlers = <<>> THEN <<>>
                               ELSE IF run.origin = "server"
                               THEN RegisteredForServer(run.name)
                               ELSE Registered(run.name)
    /\ \A name \in EventNames :
          {Registered(name)[i] : i \in 1..Len(Registered(name))} =
              IF phase.setup = "ready"
              THEN {l \in SeqRange(phase.services) :
                       Declarations[l].name = name /\ worker \in WorkersOf(l)}
              ELSE {}

C38_Witness ==
    \E r, q \in RunIds :
        /\ worker = "microservices"
        /\ runs[r].origin = "server" /\ runs[r].outcome = "resolved"
        /\ Started(runs[r]) = <<"h3", "h1">>
        /\ runs[q].origin = "emit" /\ runs[q].outcome = "resolved"
        /\ Started(runs[q]) = <<"h2", "h6", "h3", "h1">>
        /\ "h4" \in SeqRange(phase.services)
        /\ Registered("WebsocketConnect") = <<>>

\* Positions of the entries of one kind in a client's log.
ClientOps(c, op) == {i \in 1..Len(clients[c].log) : clients[c].log[i].op = op}
AuthFailed(c) == ClientOps(c, "authenticate") # {}
Unauthorized(c) ==
    \E i \in ClientOps(c, "emit") :
        /\ clients[c].log[i].arg = "error unauthorized"
        /\ i + 1 \in ClientOps(c, "disconnect")

\* C39: a connection whose authentication failed, which it does whenever no auth
\* function is set, has joined no room and dispatched no WebsocketConnect event, and
\* it ends with 'error' 'unauthorized' sent to the client, which is then disconnected;
\* a connection that dispatched WebsocketConnect was authenticated and had joined the
\* user's room, and the session's room when the auth has a session, before.
C39_ConnectionAuth ==
    /\ [](\A c \in SocketIds :
            LET client == clients[c] IN
            /\ AuthFailed(c) =>
                  /\ ClientOps(c, "join") = {} /\ ClientOps(c, "onEvent") = {}
                  /\ runs[RunOfClient(c)].origin = "none"
                  /\ client.auth = NoAuth
                  /\ client.pc \in {"catch", "closed", "gone"}
                  /\ client.pc # "catch" => Unauthorized(c)
            /\ \A i \in ClientOps(c, "onEvent") :
                  /\ client.auth \in AuthResults
                  /\ \E j \in 1..(i - 1) :
                        client.log[j] = ClientEntry("join", client.auth.userId)
                  /\ \A s \in client.auth.session :
                        \E j \in 1..(i - 1) : client.log[j] = ClientEntry("join", s)
                  /\ ClientOps(c, "join") \subseteq 1..(i - 1)
            /\ runs[RunOfClient(c)].origin # "none" => ClientOps(c, "onEvent") # {})
    /\ [][\A c \in SocketIds :
            /\ clients[c].pc = "authenticate" /\ authFn = "unset"
            /\ clients'[c] # clients[c]
            => clients'[c].pc = "catch" /\ clients'[c].auth = NoAuth]_vars

C39_Witness ==
    \E c, d \in SocketIds :
        /\ clients[c].pc = "gone" /\ Unauthorized(c)
        /\ clients[c].log[1] = ClientEntry("authenticate", "Auth function not set")
        /\ clients[d].pc = "connected"
        /\ clients[d].log =
              <<ClientEntry("join", User), ClientEntry("join", "s1"),
                ClientEntry("onEvent", "WebsocketConnect")>>
        /\ Started(runs[RunOfClient(d)]) = <<"h4">>

====
